---- MODULE Spec2Model ----
(***************************************************************************)
(* Streaming transcription session subsystem of the STT microservice:      *)
(* the WebSocket gateway (gateway_comunicacao.py), the per-session engine  *)
(* (motor_stt_vosk.py) and the dispatch orchestrator                       *)
(* (orquestrador_envio.py).                                                *)
(*                                                                         *)
(* Conventions.  An Optional value is a sequence of length 0 (None) or 1.  *)
(* A text is a sequence of one-character strings.  A float is a binary     *)
(* floating-point number of 53 significant bits; the clock alone is        *)
(* counted in quarters of a second.  One action is one stretch of handler  *)
(* code between two suspension points of the single-threaded event loop;   *)
(* the blocking requests.post splits the stretch that contains it, and so  *)
(* does the send of a partial message, which is followed by an assignment. *)
(***************************************************************************)
EXTENDS Integers, Sequences, FiniteSets, TLC

\* ------------------------------------------------------------------ bounds
NumSessoes == 2        \* connections the server can hold
MaxFrames == 2         \* audio frames the peer of a lone connection sends
MaxDuracao == 1        \* longest downstream call, in milliseconds
MaxEspera == 2         \* longest wait between two clock readings
MaxTexto == 4          \* longest text given to deve_enviar on its own
MaxEnvio == 1          \* quarters of a second the send of a partial message may take
MaxPalavras == 2       \* longest word list given to _calcular_confianca_media on its own

Sessoes == 1..NumSessoes

\* --------------------------------------------------------------- optionals
None == <<>>
Some(x) == <<x>>
IsNone(o) == o = <<>>
Val(o) == o[1]

\* --------------------------------------------------------- decimal numbers
\* A number as a JSON text or a literal of the source writes it: the exact
\* fraction n/d in lowest terms.
RECURSIVE MDC(_, _)
MDC(a, b) == IF b = 0 THEN a ELSE MDC(b, a % b)

Frac(n, d) ==
    LET g == MDC(IF n < 0 THEN 0 - n ELSE n, d)
    IN [n |-> n \div g, d |-> d \div g]

\* ------------------------------------------------------ natural numbers
\* A natural number of any size: its digits in base 2^BitsDigito, the least
\* significant first, without leading zeros (zero is the empty sequence).
\* Intermediate values are passed as arguments and not named in a LET, so
\* that each is computed where it is used.
RECURSIVE Pot2(_)
Pot2(k) == IF k = 0 THEN 1 ELSE 2 * Pot2(k - 1)

BitsDigito == 15
Base == Pot2(BitsDigito)

RECURSIVE NatDeInt(_)
NatDeInt(n) == IF n = 0 THEN <<>> ELSE <<n % Base>> \o NatDeInt(n \div Base)

RECURSIVE Aparar(_)
Aparar(a) ==
    IF a # <<>> /\ a[Len(a)] = 0 THEN Aparar(SubSeq(a, 1, Len(a) - 1)) ELSE a

Digito(a, i) == IF i <= Len(a) THEN a[i] ELSE 0

RECURSIVE SomaDigitos(_, _, _, _)
SomaDigitos(a, b, i, vai) ==
    IF i > Len(a) /\ i > Len(b) THEN (IF vai = 0 THEN <<>> ELSE <<vai>>)
    ELSE LET x == Digito(a, i) + Digito(b, i) + vai
         IN <<x % Base>> \o SomaDigitos(a, b, i + 1, x \div Base)

NatSoma(a, b) == SomaDigitos(a, b, 1, 0)

RECURSIVE SubDigitos(_, _, _, _)
SubDigitos(a, b, i, deve) ==
    IF i > Len(a) THEN <<>>
    ELSE LET x == Digito(a, i) - Digito(b, i) - deve
         IN <<IF x < 0 THEN x + Base ELSE x>>
            \o SubDigitos(a, b, i + 1, IF x < 0 THEN 1 ELSE 0)

\* a - b, for a >= b
NatSub(a, b) == Aparar(SubDigitos(a, b, 1, 0))

RECURSIVE MenorDesde(_, _, _)
MenorDesde(a, b, i) ==
    IF i = 0 THEN FALSE
    ELSE IF a[i] # b[i] THEN a[i] < b[i]
    ELSE MenorDesde(a, b, i - 1)

NatMenor(a, b) ==
    IF Len(a) # Len(b) THEN Len(a) < Len(b) ELSE MenorDesde(a, b, Len(a))

RECURSIVE VezesDigitos(_, _, _, _)
VezesDigitos(a, k, i, vai) ==
    IF i > Len(a) THEN (IF vai = 0 THEN <<>> ELSE <<vai>>)
    ELSE LET x == a[i] * k + vai
         IN <<x % Base>> \o VezesDigitos(a, k, i + 1, x \div Base)

\* a * k, for a digit k
NatVezes(a, k) == IF k = 0 THEN <<>> ELSE VezesDigitos(a, k, 1, 0)

\* a * 2^k
NatDesloca(a, k) ==
    IF a = <<>> THEN <<>>
    ELSE [i \in 1..(k \div BitsDigito) |-> 0] \o NatVezes(a, Pot2(k % BitsDigito))

\* a + b * Base
SomaDeslocada(a, b) == NatSoma(a, IF b = <<>> THEN <<>> ELSE <<0>> \o b)

RECURSIVE NatMul(_, _)
NatMul(a, b) ==
    IF a = <<>> \/ b = <<>> THEN <<>>
    ELSE SomaDeslocada(NatVezes(a, Head(b)), NatMul(a, Tail(b)))

RECURSIVE DivDigitos(_, _, _, _)
DivDigitos(a, d, i, resto) ==
    IF i = 0 THEN <<>>
    ELSE LET x == resto * Base + a[i]
         IN DivDigitos(a, d, i - 1, x % d) \o <<x \div d>>

\* the digits of a divided by the digit d, from the most significant
DivPorDigito(a, d) == Aparar(DivDigitos(a, d, Len(a), 0))

\* a \div 2^k
NatDivPot2(a, k) ==
    DivPorDigito(SubSeq(a, k \div BitsDigito + 1, Len(a)), Pot2(k % BitsDigito))

RECURSIVE BitsInt(_)
BitsInt(n) == IF n = 0 THEN 0 ELSE 1 + BitsInt(n \div 2)

\* the number of bits of a
NatBits(a) ==
    IF a = <<>> THEN 0 ELSE BitsDigito * (Len(a) - 1) + BitsInt(a[Len(a)])

\* one step of the long division by d: t is d * 2^st.i
PassoDivide(st, t) ==
    IF NatMenor(st.r, t)
    THEN [q |-> NatVezes(st.q, 2), r |-> st.r, i |-> st.i - 1]
    ELSE [q |-> NatSoma(NatVezes(st.q, 2), <<1>>), r |-> NatSub(st.r, t),
          i |-> st.i - 1]

RECURSIVE DivideDesde(_, _)
DivideDesde(d, st) ==
    IF st.i < 0 THEN [q |-> st.q, r |-> st.r]
    ELSE DivideDesde(d, PassoDivide(st, NatDesloca(d, st.i)))

\* quotient and remainder of a by d, d > 0
NatDivide(a, d) ==
    IF NatMenor(a, d) THEN [q |-> <<>>, r |-> a]
    ELSE DivideDesde(d, [q |-> <<>>, r |-> a, i |-> NatBits(a) - NatBits(d)])

\* -------------------------------------------------------- binary numbers
\* (-1)^neg * m * 2^e with m a natural number: the exact value of a float
\* and of a sum, difference or product of floats.
Diadico(neg, m, e) == [neg |-> neg, m |-> m, e |-> e]

DiNeg(x) == IF x.m = <<>> THEN x ELSE [x EXCEPT !.neg = ~@]

\* the sum of (-1)^xneg * a * 2^e and (-1)^yneg * b * 2^e
SomaAlinhada(xneg, a, yneg, b, e) ==
    IF xneg = yneg THEN Diadico(xneg, NatSoma(a, b), e)
    ELSE IF a = b THEN Diadico(FALSE, <<>>, 0)
    ELSE IF NatMenor(a, b) THEN Diadico(yneg, NatSub(b, a), e)
    ELSE Diadico(xneg, NatSub(a, b), e)

SomaEmExpoente(x, y, e) ==
    SomaAlinhada(x.neg, NatDesloca(x.m, x.e - e), y.neg, NatDesloca(y.m, y.e - e), e)

DiSoma(x, y) ==
    IF x.m = <<>> THEN y
    ELSE IF y.m = <<>> THEN x
    ELSE SomaEmExpoente(x, y, IF x.e < y.e THEN x.e ELSE y.e)

DiSub(x, y) == DiSoma(x, DiNeg(y))

DiMul(x, y) ==
    IF x.m = <<>> \/ y.m = <<>> THEN Diadico(FALSE, <<>>, 0)
    ELSE Diadico(x.neg # y.neg, NatMul(x.m, y.m), x.e + y.e)

DiNegativo(x) == x.neg /\ x.m # <<>>

DiMenor(x, y) == DiNegativo(DiSub(x, y))

\* ------------------------------------------------------------------ floats
\* A float of the interpreter: a binary number whose significand has MANT_DIG
\* bits (zero apart), every operation rounded to the nearest float, a tie to
\* the one with an even significand.  The numbers of the service are far from
\* the range where the exponent of a float overflows or underflows.
MANT_DIG == 53

FlutZero == Diadico(FALSE, <<>>, 0)

\* the significand q1 of k bits dropped, renormalised when rounding carried
ArredNormal(neg, q1, e) ==
    IF NatBits(q1) > MANT_DIG THEN Diadico(neg, NatDivPot2(q1, 1), e + 1)
    ELSE Diadico(neg, q1, e)

\* q is m \div 2^k, r the k bits dropped, meio is 2^(k-1)
ArredResto(neg, q, r, meio, e) ==
    ArredNormal(neg,
                IF NatMenor(meio, r) \/ (r = meio /\ q[1] % 2 = 1)
                THEN NatSoma(q, <<1>>) ELSE q,
                e)

ArredCorte(x, k, q) ==
    ArredResto(x.neg, q, NatSub(x.m, NatDesloca(q, k)), NatDesloca(<<1>>, k - 1),
               x.e + k)

\* x, whose significand has n bits, rounded to MANT_DIG bits
ArredBits(x, n) ==
    IF n <= MANT_DIG
    THEN Diadico(x.neg, NatDesloca(x.m, MANT_DIG - n), x.e - (MANT_DIG - n))
    ELSE ArredCorte(x, n - MANT_DIG, NatDivPot2(x.m, n - MANT_DIG))

\* the float nearest to the binary number x
Arred(x) == IF x.m = <<>> THEN FlutZero ELSE ArredBits(x, NatBits(x.m))

\* d is the quotient and remainder of a * 2^k by b: the quotient, with one
\* more bit that says whether the division left a remainder, rounded
QuocienteDe(neg, d, e) ==
    Arred(Diadico(neg, NatSoma(NatVezes(d.q, 2), IF d.r = <<>> THEN <<>> ELSE <<1>>),
                  e - 1))

QuocienteEm(neg, a, b, e, k) ==
    QuocienteDe(neg, NatDivide(NatDesloca(a, k), b), e - k)

\* the bits a lacks for its quotient by b to have MANT_DIG + 2 bits
Falta(na, nb) == IF nb + MANT_DIG + 2 > na THEN nb + MANT_DIG + 2 - na ELSE 0

\* the float nearest to (-1)^neg * (a / b) * 2^e
Quociente(neg, a, b, e) ==
    IF a = <<>> THEN FlutZero
    ELSE QuocienteEm(neg, a, b, e, Falta(NatBits(a), NatBits(b)))

FlutSoma(x, y) == Arred(DiSoma(x, y))
FlutSub(x, y) == Arred(DiSub(x, y))
FlutMul(x, y) == Arred(DiMul(x, y))
FlutDiv(x, y) == Quociente(x.neg # y.neg, x.m, y.m, x.e - y.e)
FlutMenor(x, y) == DiMenor(x, y)

\* float(n) of an integer n
FlutDeInt(n) == Arred(Diadico(n < 0, NatDeInt(IF n < 0 THEN 0 - n ELSE n), 0))

\* the float a decimal number is read as
Flut(f) ==
    Quociente(f.n < 0, NatDeInt(IF f.n < 0 THEN 0 - f.n ELSE f.n), NatDeInt(f.d), 0)

\* ------------------------------------------------------------------- texts
Espacos == {" "}

RECURSIVE lstrip(_)
lstrip(t) == IF t # <<>> /\ Head(t) \in Espacos THEN lstrip(Tail(t)) ELSE t

RECURSIVE rstrip(_)
rstrip(t) ==
    IF t # <<>> /\ t[Len(t)] \in Espacos THEN rstrip(SubSeq(t, 1, Len(t) - 1)) ELSE t

\* str.strip()
strip(t) == rstrip(lstrip(t))

\* ------------------------------------------------- recognizer (environment)
\* One word entry of Vosk's "result" list as json.loads returns it; c, i and
\* f are the decimal numbers of the JSON text.
Palavra(c, i, f) == [conf |-> Flut(c), start |-> Flut(i), end |-> Flut(f)]

\* A JSON document of the recognizer as json.loads returns it; a key that is
\* absent reads as its default.
JsonVosk(t, p, r) == [text |-> t, partial |-> p, result |-> r]

TextoOi == <<"o", "i">>
TextoOla == <<"o", "l", "a">>

\* What Result() and FinalResult() may return, as the JSON text writes it:
\* the text and, for each word, <<conf, start, end>> in decimal numbers.
TextosJsonVosk ==
    { [text |-> <<>>, result |-> <<>>],
      [text |-> <<" ">>, result |-> <<>>],
      [text |-> TextoOi,
       result |-> << <<Frac(9, 10), Frac(0, 1), Frac(1, 2)>> >>],
      [text |-> TextoOla,
       result |-> << <<Frac(9, 10), Frac(0, 1), Frac(1, 2)>>,
                     <<Frac(1, 2), Frac(1, 2), Frac(1, 1)>> >>],
      [text |-> TextoOla,
       result |-> << <<Frac(3, 10), Frac(0, 1), Frac(1, 10)>>,
                     <<Frac(3, 10), Frac(0, 1), Frac(1, 1)>> >>],
      [text |-> TextoOla, result |-> <<>>] }

\* json.loads(self.recognizer.Result()) of one of these texts
json_loads(d) ==
    JsonVosk(d.text, <<>>,
             IF d.result = <<>> THEN <<>>
             ELSE [k \in DOMAIN d.result |->
                      Palavra(d.result[k][1], d.result[k][2], d.result[k][3])])

\* What Result() and FinalResult() may return, parsed.
ResultadosVosk == {json_loads(d) : d \in TextosJsonVosk}

\* What PartialResult() may return.
ParciaisVosk ==
    { JsonVosk(<<>>, <<>>, <<>>),
      JsonVosk(<<>>, <<"o">>, <<>>),
      JsonVosk(<<>>, <<"o", "l", " ">>, <<>>) }

\* The recognizer's answer to one frame: AcceptWaveform raises, or reports a
\* boundary (Result() is read) or none (PartialResult() is read).
SaidasVosk ==
    {[falha |-> TRUE, fronteira |-> FALSE, json |-> JsonVosk(<<>>, <<>>, <<>>)]}
    \cup {[falha |-> FALSE, fronteira |-> TRUE, json |-> j] : j \in ResultadosVosk}
    \cup {[falha |-> FALSE, fronteira |-> FALSE, json |-> j] : j \in ParciaisVosk}

\* ------------------------------------------------------------------ engine
\* the body of the loop of _calcular_confianca_media for one word
Acumular(acc, confianca, duracao) ==
    IF FlutMenor(FlutZero, duracao)
    THEN [soma_confianca |-> FlutSoma(acc.soma_confianca, FlutMul(confianca, duracao)),
          soma_duracao |-> FlutSoma(acc.soma_duracao, duracao)]
    ELSE acc

RECURSIVE SomaPonderada(_, _)
\* the loop of _calcular_confianca_media: [soma_confianca, soma_duracao]
SomaPonderada(palavras, acc) ==
    IF palavras = <<>> THEN acc
    ELSE SomaPonderada(Tail(palavras),
                       Acumular(acc, Head(palavras).conf,
                                FlutSub(Head(palavras).end, Head(palavras).start)))

\* soma_confianca = 0.0, soma_duracao = 0.0
SomasZero == [soma_confianca |-> FlutZero, soma_duracao |-> FlutZero]

RECURSIVE SomaConf(_, _)
\* sum(p.get("conf", 0.0) for p in palavras_detalhadas): from the left, each
\* addition rounded (a sum() that compensates the rounding gives the same
\* value for two words)
SomaConf(palavras, acc) ==
    IF palavras = <<>> THEN acc
    ELSE SomaConf(Tail(palavras), FlutSoma(acc, Head(palavras).conf))

\* Faulty variant of calcular_confianca_media: the durations are not used and
\* the result is the plain mean of the confidences.
calcular_confianca_media_simples(resultado) ==
    IF resultado.result = <<>> THEN None
    ELSE Some(FlutDiv(SomaConf(resultado.result, FlutZero),
                      FlutDeInt(Len(resultado.result))))

\* Faulty variant of calcular_confianca_media: the weighted sum is returned
\* without dividing it by the total duration.
calcular_confianca_media_sem_divisao(resultado) ==
    LET palavras_detalhadas == resultado.result
        somas == SomaPonderada(palavras_detalhadas, SomasZero)
    IN IF palavras_detalhadas = <<>> THEN None
       ELSE IF FlutMenor(FlutZero, somas.soma_duracao)
            THEN Some(somas.soma_confianca)
            ELSE Some(SomaConf(palavras_detalhadas, FlutZero))

\* what _calcular_confianca_media returns when the loop has left somas
Media(palavras_detalhadas, somas) ==
    IF FlutMenor(FlutZero, somas.soma_duracao)
    THEN Some(FlutDiv(somas.soma_confianca, somas.soma_duracao))
    ELSE Some(FlutDiv(SomaConf(palavras_detalhadas, FlutZero),
                      FlutDeInt(Len(palavras_detalhadas))))

\* the body of _calcular_confianca_media
confianca_media(resultado) ==
    IF resultado.result = <<>> THEN None
    ELSE Media(resultado.result, SomaPonderada(resultado.result, SomasZero))

\* confianca_media of the documents of the recognizer, evaluated once
ConfiancasDosResultados == {<<j, confianca_media(j)>> : j \in ResultadosVosk}

\* the value tab holds for resultado, and confianca_media where it holds none
Consultar(tab, resultado) ==
    IF \E p \in tab : p[1] = resultado
    THEN (CHOOSE p \in tab : p[1] = resultado)[2]
    ELSE confianca_media(resultado)

\* MotorSTTVosk._calcular_confianca_media: a pure function, read from
\* ConfiancasDosResultados where it has been evaluated
calcular_confianca_media(resultado) == Consultar(ConfiancasDosResultados, resultado)

\* MotorSTTVosk.__init__: the session's counters
MotorNovo == [bytes_processados |-> 0, transcricoes_parciais |-> 0,
              transcricoes_finais |-> 0]

ResultadoMotor(m, e, f, t, c) ==
    [motor |-> m, exc |-> e, is_final |-> f, texto |-> t, confianca |-> c]

\* Faulty variant of processar_audio: a boundary with empty text counts as a
\* final transcript.
processar_audio_conta_vazio(m, tam, v) ==
    LET m1 == [m EXCEPT !.bytes_processados = @ + tam]
    IN IF v.falha THEN ResultadoMotor(m1, TRUE, FALSE, <<>>, None)
       ELSE IF v.fronteira
       THEN ResultadoMotor([m1 EXCEPT !.transcricoes_finais = @ + 1], FALSE,
                           strip(v.json.text) # <<>>, strip(v.json.text),
                           IF strip(v.json.text) # <<>>
                           THEN calcular_confianca_media(v.json) ELSE None)
       ELSE LET texto == strip(v.json.partial)
            IN IF texto # <<>>
               THEN ResultadoMotor([m1 EXCEPT !.transcricoes_parciais = @ + 1],
                                   FALSE, FALSE, texto, None)
               ELSE ResultadoMotor(m1, FALSE, FALSE, <<>>, None)

\* Faulty variant of processar_audio: a hypothesis without a boundary is
\* returned as a final transcript.
processar_audio_parcial_como_final(m, tam, v) ==
    LET m1 == [m EXCEPT !.bytes_processados = @ + tam]
    IN IF v.falha THEN ResultadoMotor(m1, TRUE, FALSE, <<>>, None)
       ELSE IF v.fronteira
       THEN LET texto == strip(v.json.text)
                confianca == calcular_confianca_media(v.json)
            IN IF texto # <<>>
               THEN ResultadoMotor([m1 EXCEPT !.transcricoes_finais = @ + 1],
                                   FALSE, TRUE, texto, confianca)
               ELSE ResultadoMotor(m1, FALSE, FALSE, <<>>, None)
       ELSE LET texto == strip(v.json.partial)
            IN IF texto # <<>>
               THEN ResultadoMotor([m1 EXCEPT !.transcricoes_parciais = @ + 1],
                                   FALSE, TRUE, texto, None)
               ELSE ResultadoMotor(m1, FALSE, FALSE, <<>>, None)

\* MotorSTTVosk.processar_audio on a frame of `tam` bytes answered by `v`
processar_audio(m, tam, v) ==
    LET m1 == [m EXCEPT !.bytes_processados = @ + tam]
    IN IF v.falha THEN ResultadoMotor(m1, TRUE, FALSE, <<>>, None)
       ELSE IF v.fronteira
       THEN LET texto == strip(v.json.text)
                confianca == calcular_confianca_media(v.json)
            IN IF texto # <<>>
               THEN ResultadoMotor([m1 EXCEPT !.transcricoes_finais = @ + 1],
                                   FALSE, TRUE, texto, confianca)
               ELSE ResultadoMotor(m1, FALSE, FALSE, <<>>, None)
       ELSE LET texto == strip(v.json.partial)
            IN IF texto # <<>>
               THEN ResultadoMotor([m1 EXCEPT !.transcricoes_parciais = @ + 1],
                                   FALSE, FALSE, texto, None)
               ELSE ResultadoMotor(m1, FALSE, FALSE, <<>>, None)

\* The f-string of the log line of finalizar_sessao: the text after the colon,
\* ".2f if confianca else 'N/A'", is a format specification, which no float and
\* no None accepts.
FormatacaoFinalizacao(confianca) ==
    IF IsNone(confianca) THEN "TypeError" ELSE "ValueError"

\* finalizar_sessao once texto and confianca are computed: the log line, then
\* the return
finalizar_com(texto, confianca) ==
    IF texto # <<>>
    THEN IF FormatacaoFinalizacao(confianca) # "ok"
         THEN [exc |-> Some(FormatacaoFinalizacao(confianca)), valor |-> None]
         ELSE [exc |-> None,
               valor |-> Some([texto |-> texto, confianca |-> confianca])]
    ELSE [exc |-> None, valor |-> None]

\* MotorSTTVosk.finalizar_sessao on the flushed document `j`:
\* [exc, valor] with valor None or Some of [texto, confianca]
finalizar_sessao(j) == finalizar_com(strip(j.text), calcular_confianca_media(j))

\* ------------------------------------------- downstream service (environment)
\* The body of an answer: a JSON object, the JSON null, another JSON value
\* (a number, a string, a list), or something that is not JSON.
CorposResposta == {"objeto", "nulo", "outro_json", "nao_json"}

Resposta(t, st, c) == [tipo |-> t, status |-> st, corpo |-> c]

\* What requests.post may do: return a response, or raise Timeout, another
\* RequestException, or something else.
RespostasGlossa ==
    {Resposta("http", 200, c) : c \in {"objeto", "nulo", "outro_json"}}
    \cup {Resposta("http", 299, "nao_json"), Resposta("http", 300, "objeto")}
    \cup {Resposta(t, 0, "nenhum") : t \in {"Timeout", "RequestException", "Exception"}}

\* ------------------------------------------------------------ orchestrator
\* OrquestradorEnvioGlossa.__init__: the session's counters
OrquestradorNovo == [total_envios |-> 0, envios_sucesso |-> 0, envios_falha |-> 0,
                     latencia_total_ms |-> 0]

\* ResultadoDespachoGlossa
ResultadoDespacho(sent, st, body, dur, err) ==
    [request_sent |-> sent, response_status |-> st, response_body |-> body,
     duration_ms |-> dur, error |-> err]

LimiarConfianca == Flut(Frac(3, 10))

\* Faulty variant of deve_enviar: a confidence of exactly 0.3 is rejected too.
deve_enviar_limiar_estrito(texto, confianca) ==
    IF texto = <<>> \/ strip(texto) = <<>> THEN FALSE
    ELSE IF Len(strip(texto)) < 3 THEN FALSE
    ELSE IF ~IsNone(confianca) /\ ~FlutMenor(LimiarConfianca, Val(confianca)) THEN FALSE
    ELSE TRUE

deve_enviar(texto, confianca) ==
    IF texto = <<>> \/ strip(texto) = <<>> THEN FALSE
    ELSE IF Len(strip(texto)) < 3 THEN FALSE
    ELSE IF ~IsNone(confianca) /\ FlutMenor(Val(confianca), LimiarConfianca) THEN FALSE
    ELSE TRUE

\* Faulty variant of enviar_inicio: the request is made without asking the filter.
enviar_inicio_sem_filtro(o, texto, confianca) ==
    [orq |-> [o EXCEPT !.total_envios = @ + 1], post |-> TRUE, resultado |-> None]

\* enviar_para_glossa up to the request: the attempt is counted, the filter
\* decides, and a filtered call returns at once.
enviar_inicio(o, texto, confianca) ==
    LET o1 == [o EXCEPT !.total_envios = @ + 1]
    IN IF ~deve_enviar(texto, confianca)
       THEN [orq |-> o1, post |-> FALSE,
             resultado |-> Some(ResultadoDespacho(FALSE, None, "nenhum", None,
                                                  Some("filtrada")))]
       ELSE [orq |-> o1, post |-> TRUE, resultado |-> None]

\* response.json(), with the raw-text wrapper when it raises; the JSON null
\* is None
CorpoExtraido(corpo) ==
    IF corpo = "nao_json" THEN "raw"
    ELSE IF corpo = "nulo" THEN "nenhum"
    ELSE corpo

\* response_body: Optional[dict] accepts a dict and None only
CorpoValido(body) == body \in {"objeto", "raw", "erro", "nenhum"}

\* The try block of enviar_para_glossa from requests.post on:
\* [orq, levantou, resultado]; levantou names the exception class raised in it.
corpo_try(o, resp, dur) ==
    IF resp.tipo # "http"
    THEN [orq |-> o, levantou |-> resp.tipo, resultado |-> None]
    ELSE LET o1 == [o EXCEPT !.latencia_total_ms = @ + dur]
         IN IF 200 <= resp.status /\ resp.status < 300
            THEN LET o2 == [o1 EXCEPT !.envios_sucesso = @ + 1]
                     response_body == CorpoExtraido(resp.corpo)
                 IN IF CorpoValido(response_body)
                    THEN [orq |-> o2, levantou |-> "nenhuma",
                          resultado |-> Some(ResultadoDespacho(TRUE, Some(resp.status),
                                                 response_body, Some(dur), None))]
                    ELSE [orq |-> o2, levantou |-> "Exception", resultado |-> None]
            ELSE [orq |-> [o1 EXCEPT !.envios_falha = @ + 1], levantou |-> "nenhuma",
                  resultado |-> Some(ResultadoDespacho(TRUE, Some(resp.status), "erro",
                                         Some(dur), Some("http")))]

\* Faulty variant of tratadores: no clause for exceptions that are neither
\* Timeout nor RequestException, which then leave the method.
tratadores_sem_generico(t, dur) ==
    IF t.levantou = "nenhuma"
    THEN [orq |-> t.orq, exc |-> None, resultado |-> t.resultado]
    ELSE IF t.levantou = "Timeout"
    THEN [orq |-> [t.orq EXCEPT !.envios_falha = @ + 1], exc |-> None,
          resultado |-> Some(ResultadoDespacho(TRUE, None, "nenhum", Some(dur),
                                               Some("timeout")))]
    ELSE IF t.levantou = "RequestException"
    THEN [orq |-> [t.orq EXCEPT !.envios_falha = @ + 1], exc |-> None,
          resultado |-> Some(ResultadoDespacho(FALSE, None, "nenhum", Some(dur),
                                               Some("rede")))]
    ELSE [orq |-> t.orq, exc |-> Some(t.levantou), resultado |-> None]

\* Faulty variant of tratadores: the clause of RequestException comes first and
\* takes the timeouts too.
tratadores_timeout_como_rede(t, dur) ==
    IF t.levantou = "nenhuma"
    THEN [orq |-> t.orq, exc |-> None, resultado |-> t.resultado]
    ELSE IF t.levantou \in {"Timeout", "RequestException"}
    THEN [orq |-> [t.orq EXCEPT !.envios_falha = @ + 1], exc |-> None,
          resultado |-> Some(ResultadoDespacho(FALSE, None, "nenhum", Some(dur),
                                               Some("rede")))]
    ELSE [orq |-> [t.orq EXCEPT !.envios_falha = @ + 1], exc |-> None,
          resultado |-> Some(ResultadoDespacho(FALSE, None, "nenhum", None,
                                               Some("inesperado")))]

\* The except clauses of enviar_para_glossa: [orq, exc, resultado]; exc is the
\* exception that leaves the method, if any.
tratadores(t, dur) ==
    IF t.levantou = "nenhuma"
    THEN [orq |-> t.orq, exc |-> None, resultado |-> t.resultado]
    ELSE IF t.levantou = "Timeout"
    THEN [orq |-> [t.orq EXCEPT !.envios_falha = @ + 1], exc |-> None,
          resultado |-> Some(ResultadoDespacho(TRUE, None, "nenhum", Some(dur),
                                               Some("timeout")))]
    ELSE IF t.levantou = "RequestException"
    THEN [orq |-> [t.orq EXCEPT !.envios_falha = @ + 1], exc |-> None,
          resultado |-> Some(ResultadoDespacho(FALSE, None, "nenhum", Some(dur),
                                               Some("rede")))]
    ELSE [orq |-> [t.orq EXCEPT !.envios_falha = @ + 1], exc |-> None,
          resultado |-> Some(ResultadoDespacho(FALSE, None, "nenhum", None,
                                               Some("inesperado")))]

\* enviar_para_glossa from the answer of requests.post to its return
enviar_retorno(o, resp, dur) == tratadores(corpo_try(o, resp, dur), dur)

\* ------------------------------------------------------- protocol messages
Mensagem(tp, t, c, d) == [type |-> tp, text |-> t, confidence |-> c, dispatch |-> d]

MensagemSessaoIniciada == Mensagem("session_started", <<>>, None, None)
MensagemTranscricaoParcial(t, c) == Mensagem("partial", t, c, None)
MensagemTranscricaoFinal(t, c, d) == Mensagem("final", t, c, Some(d))
MensagemErro == Mensagem("error", <<>>, None, None)

\* confidence: Optional[float] with ge=0.0, le=1.0
ConfiancaValida(c) ==
    IsNone(c) \/ (~FlutMenor(Val(c), FlutZero) /\ ~FlutMenor(FlutDeInt(1), Val(c)))

\* ----------------------------------------------------------- configuration
\* ConfiguracaoSTT as far as validar() reads it.  caminho is what
\* VOSK_MODEL_PATH holds and what the file system has there: "nenhum" (unset),
\* "vazio" (the empty string), "ausente" (nothing at that path), "arquivo"
\* (a file), "diretorio" (a directory).
Configuracao(c, t) == [caminho |-> c, taxa |-> t]

TaxasSuportadas == {8000, 16000, 32000, 44100, 48000}

Configuracoes ==
    {Configuracao(c, t) :
         c \in {"nenhum", "vazio", "ausente", "arquivo", "diretorio"},
         t \in {16000, 22050}}

ConfiguracaoValida == Configuracao("diretorio", 16000)

\* Faulty variant of validar: the sample rate is not looked at.
validar_sem_taxa(c, mkdir_ok) ==
    IF c.caminho \in {"nenhum", "vazio"} THEN "ValueError"
    ELSE IF c.caminho = "ausente" THEN "FileNotFoundError"
    ELSE IF c.caminho # "diretorio" THEN "NotADirectoryError"
    ELSE IF ~mkdir_ok THEN "OSError"
    ELSE "ok"

\* ConfiguracaoSTT.validar: the exception it raises, or "ok"; mkdir_ok says
\* whether the directory of the logs can be made
validar(c, mkdir_ok) ==
    IF c.caminho \in {"nenhum", "vazio"} THEN "ValueError"
    ELSE IF c.caminho = "ausente" THEN "FileNotFoundError"
    ELSE IF c.caminho # "diretorio" THEN "NotADirectoryError"
    ELSE IF c.taxa \notin TaxasSuportadas THEN "ValueError"
    ELSE IF ~mkdir_ok THEN "OSError"
    ELSE "ok"

\* ------------------------------------------------------------------- state
\* INTERVALO_EMISSAO_PARCIAL, 0.5 s, in quarters of a second
INTERVALO_EMISSAO_PARCIAL == 2

VARIABLES
    servico,      \* "parado", "servindo" or "falhou": the startup hook
    modelo,       \* CarregadorModeloVosk: _modelo_carregado, _instancia_modelo
    agora,        \* the last value read from time.time()
    exc_envio,    \* what send_json raises once the peer has left
    vagas,        \* connections the peers will still open
    orcamento,    \* audio frames the peers will still send
    sessao,       \* per connection: the locals of websocket_stt and its objects
    f_texto,      \* deve_enviar on its own: the text,
    f_confianca,  \*   the confidence
    f_saida,      \*   and the value returned
    c_resultado,  \* _calcular_confianca_media on its own: the document,
    c_saida,      \*   and the value returned
    config,       \* ConfiguracaoSTT as the environment of the process sets it
    turno         \* one turn of the receive loop on its own: the session, what
                  \*   arrives, the clock, and what processar_audio and the
                  \*   turn made of them

vars == <<servico, modelo, exc_envio, agora, vagas, orcamento, sessao, f_texto, f_confianca, f_saida, c_resultado, c_saida, config, turno>>

\* What send_json raises on a connection the peer has left: WebSocketDisconnect
\* or another exception, by the version of the installed server library.
ExcecoesEnvio == {"WebSocketDisconnect", "Exception"}

\* TAMANHO_BUFFER_AUDIO: the size of a frame that is not empty
TAMANHO_BUFFER_AUDIO == 8192

\* What teardown did: whether finalizar_sessao was called, the flushed text and
\* its confidence, the exception that left finalizar_sessao or the value it
\* returned, and the components whose obter_estatisticas was read.
SemEncerramento ==
    [finalizou |-> FALSE, flush |-> <<>>, confianca |-> None, exc |-> None,
     valor |-> None, stats |-> {}]

\* A connection not yet made.
\*   pc         where websocket_stt stands: "ocioso", "aceita", "recebendo",
\*              "enviando_parcial", "despachando", "tratando", "encerrando",
\*              "terminada"
\*   agora      the reading of the clock the handler holds while the send of a
\*              partial message is suspended
\*   canal      whether the peer still holds the connection
\*   modelo_motor     the Model instance the engine's recognizer was built on
\*   enviadas   the messages send_json has delivered, in order
\*   causa      the exception class that ended the loop, if any
\*   despachos  every call of enviar_para_glossa: its arguments, the answer of
\*              the downstream service and the result returned
\*   posts      calls of requests.post
\*   erro_tentado     whether send_json was called with the error message
\*   resultado_motor  what the last call of processar_audio returned
SessaoNova ==
    [pc |-> "ocioso", canal |-> "fechado", enviadas |-> <<>>, motor |-> None,
     modelo_motor |-> None, orq |-> None, ultima_emissao_parcial |-> 0,
     agora |-> None,
     pendente |-> [texto |-> <<>>, confianca |-> None],
     causa |-> "nenhuma", despachos |-> <<>>, posts |-> 0, erro_tentado |-> FALSE,
     resultado_motor |-> [is_final |-> FALSE, texto |-> <<>>, confianca |-> None],
     encerramento |-> SemEncerramento]

ModeloNovo == [carregado |-> FALSE, instancia |-> None, construcoes |-> 0]

InitServidor ==
    /\ servico = "parado"
    /\ modelo = ModeloNovo
    /\ exc_envio \in ExcecoesEnvio
    /\ agora = INTERVALO_EMISSAO_PARCIAL
    /\ sessao = [s \in Sessoes |-> SessaoNova]

\* One peer connects and sends at most MaxFrames frames.
Init ==
    /\ InitServidor
    /\ vagas = 1
    /\ orcamento = MaxFrames
    /\ f_texto = <<>>
    /\ f_confianca = None
    /\ f_saida = None
    /\ c_resultado = JsonVosk(<<>>, <<>>, <<>>)
    /\ c_saida = None
    /\ config \in Configuracoes
    /\ turno = None

\* requests.post holds the only thread of the event loop until it returns.
LoopLivre == \A s \in Sessoes : sessao[s].pc # "despachando"

\* ----------------------------------------------------------------- startup
\* Faulty variant of obter_modelo: the cached instance is not looked at and
\* every call builds a Model.
obter_modelo_sem_cache(m, ok) ==
    IF ok
    THEN LET nova == Some(m.construcoes + 1)
         IN [modelo |-> [carregado |-> TRUE, instancia |-> nova,
                         construcoes |-> m.construcoes + 1],
             exc |-> FALSE, instancia |-> nova]
    ELSE [modelo |-> m, exc |-> TRUE, instancia |-> None]

\* CarregadorModeloVosk.obter_modelo; `ok` says whether Model(...) succeeds
obter_modelo(m, ok) ==
    IF m.carregado /\ ~IsNone(m.instancia)
    THEN [modelo |-> m, exc |-> FALSE, instancia |-> m.instancia]
    ELSE IF ok
    THEN LET nova == Some(m.construcoes + 1)
         IN [modelo |-> [carregado |-> TRUE, instancia |-> nova,
                         construcoes |-> m.construcoes + 1],
             exc |-> FALSE, instancia |-> nova]
    ELSE [modelo |-> m, exc |-> TRUE, instancia |-> None]

\* main() and startup(): validar(), then the preload; the server accepts
\* connections only when both pass
Startup ==
    /\ servico = "parado"
    /\ \E mkdir_ok \in BOOLEAN, carga_ok \in BOOLEAN :
          IF validar(config, mkdir_ok) # "ok"
          THEN servico' = "falhou" /\ modelo' = modelo
          ELSE LET r == obter_modelo(modelo, carga_ok)
               IN /\ modelo' = r.modelo
                  /\ servico' = IF r.exc THEN "falhou" ELSE "servindo"
    /\ UNCHANGED <<exc_envio, agora, vagas, orcamento, sessao, f_texto, f_confianca,
                   f_saida, c_resultado, c_saida, config, turno>>

\* ----------------------------------------------------------------- gateway
\* Faulty variant of Levantar: WebSocketDisconnect has no clause of its own and
\* is handled like any other exception.
Levantar_sem_desconexao(x, tipo) == [x EXCEPT !.causa = tipo, !.pc = "tratando"]

\* An exception reaches the except clauses of websocket_stt.
Levantar(x, tipo) ==
    [x EXCEPT !.causa = tipo,
              !.pc = IF tipo = "WebSocketDisconnect" THEN "encerrando" ELSE "tratando"]

\* Faulty variant of send_json: the message overtakes those sent before it.
send_json_na_frente(x, msg, tipo) ==
    IF x.canal = "aberto" THEN [x EXCEPT !.enviadas = <<msg>> \o @]
    ELSE Levantar(x, tipo)

\* await websocket.send_json(msg)
send_json(x, msg, tipo) ==
    IF x.canal = "aberto" THEN [x EXCEPT !.enviadas = Append(@, msg)]
    ELSE Levantar(x, tipo)

\* Faulty variant of iniciar: the loop is entered without sending session_started.
iniciar_sem_mensagem(x, carga, rec_ok, tipo) ==
    IF carga.exc \/ ~rec_ok THEN Levantar(x, "Exception")
    ELSE [x EXCEPT !.motor = Some(MotorNovo), !.orq = Some(OrquestradorNovo),
                   !.pc = "recebendo", !.ultima_emissao_parcial = 0]

\* websocket_stt from accept() to the first receive_bytes(); carga is the
\* outcome of obter_modelo inside MotorSTTVosk.__init__, rec_ok whether
\* KaldiRecognizer(...) succeeds
iniciar(x, carga, rec_ok, tipo) ==
    IF carga.exc \/ ~rec_ok THEN Levantar(x, "Exception")
    ELSE LET x1 == [x EXCEPT !.motor = Some(MotorNovo),
                             !.modelo_motor = carga.instancia,
                             !.orq = Some(OrquestradorNovo)]
             x2 == send_json(x1, MensagemSessaoIniciada, tipo)
         IN IF x2.causa # "nenhuma" THEN x2
            ELSE [x2 EXCEPT !.pc = "recebendo", !.ultima_emissao_parcial = 0]

\* Faulty variant of emitir_final: the final message is never sent.
emitir_final_calado(x, texto, confianca, resultado, tipo) ==
    [x EXCEPT !.pc = "recebendo"]

\* The final message of a transcript and its send.
emitir_final(x, texto, confianca, resultado, tipo) ==
    IF ~ConfiancaValida(confianca) THEN Levantar(x, "Exception")
    ELSE LET y == send_json(x, MensagemTranscricaoFinal(texto, confianca, resultado),
                            tipo)
         IN IF y.causa # "nenhuma" THEN y ELSE [y EXCEPT !.pc = "recebendo"]

Despacho(t, c, r, d, o) ==
    [texto |-> t, confianca |-> c, resposta |-> r, resultado |-> d, origem |-> o]

\* The call of enviar_para_glossa up to requests.post (or to its return, when
\* the filter rejects the transcript).
despachar(x, texto, confianca, origem) ==
    LET ini == enviar_inicio(Val(x.orq), texto, confianca)
    IN [x EXCEPT !.orq = Some(ini.orq),
                 !.despachos = Append(@, Despacho(texto, confianca, None,
                                                  ini.resultado, origem)),
                 !.posts = IF ini.post THEN @ + 1 ELSE @,
                 !.pendente = [texto |-> texto, confianca |-> confianca],
                 !.pc = IF ini.post THEN "despachando" ELSE @]

\* Faulty variant of receber: every partial hypothesis is sent, whatever the
\* time since the last one.
receber_sem_limite(x0, ev, lido, tipo) ==
    IF x0.canal = "fechado" THEN Levantar(x0, "WebSocketDisconnect")
    ELSE IF ev.tipo = "erro" THEN Levantar(x0, "Exception")
    ELSE IF ev.tam = 0 THEN x0
    ELSE LET x == [x0 EXCEPT !.canal = IF ev.fecha THEN "fechado" ELSE @]
             r == processar_audio(Val(x.motor), ev.tam, ev.vosk)
             x1 == [x EXCEPT !.motor = Some(r.motor),
                             !.resultado_motor =
                                 IF r.exc THEN @
                                 ELSE [is_final |-> r.is_final, texto |-> r.texto,
                                       confianca |-> r.confianca]]
         IN IF r.exc THEN Levantar(x1, "Exception")
            ELSE IF r.is_final /\ r.texto # <<>>
            THEN LET x2 == despachar(x1, r.texto, r.confianca, "loop")
                 IN IF x2.pc = "despachando" THEN x2
                    ELSE emitir_final(x2, r.texto, r.confianca,
                                      Val(x2.despachos[Len(x2.despachos)].resultado),
                                      tipo)
            ELSE IF ~r.is_final /\ r.texto # <<>>
            THEN LET y == send_json(x1,
                              MensagemTranscricaoParcial(r.texto, r.confianca), tipo)
                 IN IF y.causa # "nenhuma" THEN y
                    ELSE [y EXCEPT !.agora = Some(lido), !.pc = "enviando_parcial"]
            ELSE x1

\* Faulty variant of receber: the partial branch does not ask whether there is
\* any text.
receber_parcial_vazia(x0, ev, lido, tipo) ==
    IF x0.canal = "fechado" THEN Levantar(x0, "WebSocketDisconnect")
    ELSE IF ev.tipo = "erro" THEN Levantar(x0, "Exception")
    ELSE IF ev.tam = 0 THEN x0
    ELSE LET x == [x0 EXCEPT !.canal = IF ev.fecha THEN "fechado" ELSE @]
             r == processar_audio(Val(x.motor), ev.tam, ev.vosk)
             x1 == [x EXCEPT !.motor = Some(r.motor),
                             !.resultado_motor =
                                 IF r.exc THEN @
                                 ELSE [is_final |-> r.is_final, texto |-> r.texto,
                                       confianca |-> r.confianca]]
         IN IF r.exc THEN Levantar(x1, "Exception")
            ELSE IF r.is_final /\ r.texto # <<>>
            THEN LET x2 == despachar(x1, r.texto, r.confianca, "loop")
                 IN IF x2.pc = "despachando" THEN x2
                    ELSE emitir_final(x2, r.texto, r.confianca,
                                      Val(x2.despachos[Len(x2.despachos)].resultado),
                                      tipo)
            ELSE IF ~r.is_final
            THEN IF lido - x1.ultima_emissao_parcial >= INTERVALO_EMISSAO_PARCIAL
                 THEN LET y == send_json(x1,
                                   MensagemTranscricaoParcial(r.texto, r.confianca),
                                   tipo)
                      IN IF y.causa # "nenhuma" THEN y
                         ELSE [y EXCEPT !.agora = Some(lido), !.pc = "enviando_parcial"]
                 ELSE x1
            ELSE x1

\* Faulty variant of receber: an empty frame is passed to the engine like any
\* other.
receber_sem_descarte(x0, ev, lido, tipo) ==
    IF x0.canal = "fechado" THEN Levantar(x0, "WebSocketDisconnect")
    ELSE IF ev.tipo = "erro" THEN Levantar(x0, "Exception")
    ELSE LET x == [x0 EXCEPT !.canal = IF ev.fecha THEN "fechado" ELSE @]
             r == processar_audio(Val(x.motor), ev.tam, ev.vosk)
             x1 == [x EXCEPT !.motor = Some(r.motor),
                             !.resultado_motor =
                                 IF r.exc THEN @
                                 ELSE [is_final |-> r.is_final, texto |-> r.texto,
                                       confianca |-> r.confianca]]
         IN IF r.exc THEN Levantar(x1, "Exception")
            ELSE IF r.is_final /\ r.texto # <<>>
            THEN LET x2 == despachar(x1, r.texto, r.confianca, "loop")
                 IN IF x2.pc = "despachando" THEN x2
                    ELSE emitir_final(x2, r.texto, r.confianca,
                                      Val(x2.despachos[Len(x2.despachos)].resultado),
                                      tipo)
            ELSE IF ~r.is_final /\ r.texto # <<>>
            THEN IF lido - x1.ultima_emissao_parcial >= INTERVALO_EMISSAO_PARCIAL
                 THEN LET y == send_json(x1,
                                   MensagemTranscricaoParcial(r.texto, r.confianca),
                                   tipo)
                      IN IF y.causa # "nenhuma" THEN y
                         ELSE [y EXCEPT !.agora = Some(lido), !.pc = "enviando_parcial"]
                 ELSE x1
            ELSE x1

\* The turn of the loop after enviar_para_glossa has returned without a
\* request (x2.pc is "despachando" when the request is being made).
receber_despachado(x2, r, tipo) ==
    IF x2.pc = "despachando" THEN x2
    ELSE emitir_final(x2, r.texto, r.confianca,
                      Val(x2.despachos[Len(x2.despachos)].resultado), tipo)

\* The turn of the loop after the partial message was handed to send_json.
receber_parcial_enviada(y, lido) ==
    IF y.causa # "nenhuma" THEN y
    ELSE [y EXCEPT !.agora = Some(lido), !.pc = "enviando_parcial"]

\* The turn of the loop after processar_audio has returned r (or raised).
receber_resultado(x, r, lido, tipo) ==
    LET x1 == [x EXCEPT !.motor = Some(r.motor),
                        !.resultado_motor =
                            IF r.exc THEN @
                            ELSE [is_final |-> r.is_final, texto |-> r.texto,
                                  confianca |-> r.confianca]]
    IN IF r.exc THEN Levantar(x1, "Exception")
       ELSE IF r.is_final /\ r.texto # <<>>
       THEN receber_despachado(despachar(x1, r.texto, r.confianca, "loop"), r, tipo)
       ELSE IF ~r.is_final /\ r.texto # <<>>
       THEN IF lido - x1.ultima_emissao_parcial >= INTERVALO_EMISSAO_PARCIAL
            THEN receber_parcial_enviada(
                     send_json(x1, MensagemTranscricaoParcial(r.texto, r.confianca),
                               tipo),
                     lido)
            ELSE x1
       ELSE x1

\* One turn of the loop: receive_bytes() and what follows it up to the next
\* suspension.  ev is what arrives; lido is the value time.time() returns.  A
\* partial message is delivered at the call of send_json, which then suspends
\* the handler.
receber(x0, ev, lido, tipo) ==
    IF x0.canal = "fechado" THEN Levantar(x0, "WebSocketDisconnect")
    ELSE IF ev.tipo = "erro" THEN Levantar(x0, "Exception")
    ELSE IF ev.tam = 0 THEN x0
    ELSE receber_resultado([x0 EXCEPT !.canal = IF ev.fecha THEN "fechado" ELSE @],
                           processar_audio(Val(x0.motor), ev.tam, ev.vosk),
                           lido, tipo)

\* The send of the partial message returns: ultima_emissao_parcial = agora,
\* and the loop goes back to receive_bytes().
retomar_parcial(x) ==
    [x EXCEPT !.ultima_emissao_parcial = Val(x.agora), !.agora = None,
              !.pc = "recebendo"]

\* whether r takes the loop to the branch of the partial messages
ResultadoParcial(r) == ~r.exc /\ ~r.is_final /\ r.texto # <<>>

\* whether this turn of the loop reads the clock
LeRelogio(x0, ev) ==
    /\ x0.canal = "aberto" /\ ev.tipo = "frame" /\ ev.tam > 0
    /\ ~ev.vosk.falha /\ ~ev.vosk.fronteira
    /\ ResultadoParcial(processar_audio(Val(x0.motor), ev.tam, ev.vosk))

\* Faulty variant of retornar: a failed dispatch is raised as a processing error.
retornar_falha_levanta(x, resp, dur, tipo) ==
    LET ret == enviar_retorno(Val(x.orq), resp, dur)
        n == Len(x.despachos)
        x1 == [x EXCEPT !.orq = Some(ret.orq),
                        !.despachos[n].resposta = Some([resp |-> resp, dur |-> dur]),
                        !.despachos[n].resultado = ret.resultado,
                        !.pc = "recebendo"]
    IN IF ~IsNone(ret.exc) \/ ~IsNone(Val(ret.resultado).error)
       THEN Levantar(x1, "Exception")
       ELSE emitir_final(x1, x.pendente.texto, x.pendente.confianca,
                         Val(ret.resultado), tipo)

\* requests.post answers: the rest of enviar_para_glossa, then the final message
retornar(x, resp, dur, tipo) ==
    LET ret == enviar_retorno(Val(x.orq), resp, dur)
        n == Len(x.despachos)
        x1 == [x EXCEPT !.orq = Some(ret.orq),
                        !.despachos[n].resposta = Some([resp |-> resp, dur |-> dur]),
                        !.despachos[n].resultado = ret.resultado,
                        !.pc = "recebendo"]
    IN IF ~IsNone(ret.exc) THEN Levantar(x1, "Exception")
       ELSE emitir_final(x1, x.pendente.texto, x.pendente.confianca,
                         Val(ret.resultado), tipo)

\* Faulty variant of tratar: the handler only logs.
tratar_sem_envio(x) == [x EXCEPT !.pc = "encerrando"]

\* Faulty variant of tratar: after the error message the session goes back to
\* its loop.
tratar_retoma(x) ==
    [x EXCEPT !.enviadas = IF x.canal = "aberto" THEN Append(@, MensagemErro) ELSE @,
              !.erro_tentado = TRUE,
              !.pc = IF IsNone(x.motor) THEN "encerrando" ELSE "recebendo"]

\* Faulty variant of tratar: the error message is sent twice.
tratar_erro_duplo(x) ==
    [x EXCEPT !.enviadas = IF x.canal = "aberto"
                           THEN Append(Append(@, MensagemErro), MensagemErro) ELSE @,
              !.erro_tentado = TRUE,
              !.pc = "encerrando"]

\* except Exception: the error message, best effort
tratar(x) ==
    [x EXCEPT !.enviadas = IF x.canal = "aberto" THEN Append(@, MensagemErro) ELSE @,
              !.erro_tentado = TRUE,
              !.pc = "encerrando"]

\* the return of enviar_para_glossa in teardown: x1 is the session at
\* requests.post, or past the call when the filter rejected the text
despacho_retorno(x1, pc, resp, dur) ==
    IF x1.pc # "despachando" THEN x1
    ELSE LET ret == enviar_retorno(Val(x1.orq), resp, dur)
             n == Len(x1.despachos)
         IN [x1 EXCEPT !.orq = Some(ret.orq),
                       !.despachos[n].resposta = Some([resp |-> resp, dur |-> dur]),
                       !.despachos[n].resultado = ret.resultado,
                       !.pc = pc]

\* enviar_para_glossa as teardown calls it, from call to return
despacho_sincrono(x, texto, confianca, resp, dur) ==
    despacho_retorno(despachar(x, texto, confianca, "encerramento"), x.pc, resp, dur)

\* whether finalizar_sessao returned a transcript the filter lets through
FinalizacaoEnviavel(fin) ==
    /\ IsNone(fin.exc) /\ ~IsNone(fin.valor)
    /\ deve_enviar(Val(fin.valor).texto, Val(fin.valor).confianca)

\* whether teardown reaches requests.post with the flushed document j
DespachaNoFim(x, j) ==
    /\ ~IsNone(x.motor) /\ ~IsNone(x.orq)
    /\ FinalizacaoEnviavel(finalizar_sessao(j))

\* what teardown did when finalizar_sessao, called on a flush of text flush
\* and confidence confianca, gave fin
Encerramento(flush, confianca, fin) ==
    [finalizou |-> TRUE, flush |-> flush, confianca |-> confianca,
     exc |-> fin.exc, valor |-> fin.valor, stats |-> {}]

\* finally, after finalizar_sessao has returned or raised what marca holds:
\* dispatch of the flushed text, statistics
encerrar_finalizado(x, marca, resp, dur) ==
    IF ~IsNone(marca.exc)
    THEN [x EXCEPT !.pc = "terminada", !.encerramento = marca]
    ELSE LET x1 == IF IsNone(marca.valor) \/ IsNone(x.orq) THEN x
                   ELSE despacho_sincrono(x, Val(marca.valor).texto,
                                          Val(marca.valor).confianca, resp, dur)
             lidas == {"motor"} \cup
                      (IF IsNone(x.orq) THEN {} ELSE {"orquestrador"})
         IN [x1 EXCEPT !.pc = "terminada",
                       !.encerramento = [marca EXCEPT !.stats = lidas]]

\* finally: flush, dispatch of the flushed text, statistics
encerrar(x, j, resp, dur) ==
    IF IsNone(x.motor) THEN [x EXCEPT !.pc = "terminada"]
    ELSE encerrar_finalizado(x,
             Encerramento(strip(j.text), calcular_confianca_media(j),
                          finalizar_sessao(j)),
             resp, dur)

\* ----------------------------------------------------------------- actions
SemVosk == [falha |-> FALSE, fronteira |-> FALSE, json |-> JsonVosk(<<>>, <<>>, <<>>)]

Evento(tp, n, v, f) == [tipo |-> tp, tam |-> n, vosk |-> v, fecha |-> f]

\* What one receive_bytes() on an open connection may bring: a failure of the
\* reception itself, an empty frame, or a frame of audio, after which the peer
\* may leave at once.
Eventos ==
    {Evento("erro", 0, SemVosk, FALSE), Evento("frame", 0, SemVosk, FALSE)}
    \cup {Evento("frame", TAMANHO_BUFFER_AUDIO, v, f) : v \in SaidasVosk, f \in BOOLEAN}

Aceitar(s) ==
    /\ servico = "servindo"
    /\ LoopLivre
    /\ sessao[s].pc = "ocioso"
    /\ \A t \in Sessoes : t < s => sessao[t].pc # "ocioso"
    /\ vagas > 0
    /\ vagas' = vagas - 1
    /\ sessao' = [sessao EXCEPT ![s].pc = "aceita", ![s].canal = "aberto"]
    /\ UNCHANGED <<servico, modelo, exc_envio, agora, orcamento, f_texto, f_confianca, f_saida, c_resultado, c_saida, config, turno>>

Iniciar(s) ==
    /\ sessao[s].pc = "aceita"
    /\ LoopLivre
    /\ \E carga_ok \in BOOLEAN, rec_ok \in BOOLEAN :
          LET carga == obter_modelo(modelo, carga_ok)
          IN /\ modelo' = carga.modelo
             /\ sessao' = [sessao EXCEPT ![s] = iniciar(@, carga, rec_ok, exc_envio)]
    /\ UNCHANGED <<servico, exc_envio, agora, vagas, orcamento, f_texto, f_confianca, f_saida, c_resultado, c_saida, config, turno>>

ReceberFrame(s) ==
    /\ sessao[s].pc = "recebendo"
    /\ LoopLivre
    /\ sessao[s].canal = "aberto" => orcamento > 0
    /\ \E ev \in Eventos :
          \E espera \in IF LeRelogio(sessao[s], ev) THEN 0..MaxEspera ELSE {0} :
             /\ agora' = agora + espera
             /\ sessao' = [sessao EXCEPT ![s] = receber(@, ev, agora + espera, exc_envio)]
    /\ orcamento' = IF sessao[s].canal = "aberto" THEN orcamento - 1 ELSE orcamento
    /\ UNCHANGED <<servico, modelo, exc_envio, vagas, f_texto, f_confianca, f_saida, c_resultado, c_saida, config, turno>>

RetomarParcial(s) ==
    /\ sessao[s].pc = "enviando_parcial"
    /\ LoopLivre
    /\ \E envio \in 0..MaxEnvio : agora' = agora + envio
    /\ sessao' = [sessao EXCEPT ![s] = retomar_parcial(@)]
    /\ UNCHANGED <<servico, modelo, exc_envio, vagas, orcamento, f_texto, f_confianca, f_saida, c_resultado, c_saida, config, turno>>

RetornoGlossa(s) ==
    /\ sessao[s].pc = "despachando"
    /\ \E resp \in RespostasGlossa, dur \in 1..MaxDuracao :
          sessao' = [sessao EXCEPT ![s] = retornar(@, resp, dur, exc_envio)]
    /\ UNCHANGED <<servico, modelo, exc_envio, agora, vagas, orcamento, f_texto, f_confianca, f_saida, c_resultado, c_saida, config, turno>>

\* Faulty variant of TratarExcecao: the failure of one session is raised in
\* every session that is in its loop.
TratarExcecao_em_todas(s) ==
    /\ sessao[s].pc = "tratando"
    /\ LoopLivre
    /\ sessao' = [t \in Sessoes |->
                     IF t = s THEN tratar(sessao[t])
                     ELSE IF sessao[t].pc = "recebendo"
                          THEN Levantar(sessao[t], "Exception")
                          ELSE sessao[t]]
    /\ UNCHANGED <<servico, modelo, exc_envio, agora, vagas, orcamento, f_texto, f_confianca, f_saida, c_resultado, c_saida, config, turno>>

TratarExcecao(s) ==
    /\ sessao[s].pc = "tratando"
    /\ LoopLivre
    /\ sessao' = [sessao EXCEPT ![s] = tratar(@)]
    /\ UNCHANGED <<servico, modelo, exc_envio, agora, vagas, orcamento, f_texto, f_confianca, f_saida, c_resultado, c_saida, config, turno>>

Encerrar(s) ==
    /\ sessao[s].pc = "encerrando"
    /\ LoopLivre
    /\ \E j \in ResultadosVosk :
          \E resp \in IF DespachaNoFim(sessao[s], j) THEN RespostasGlossa
                       ELSE {Resposta("Exception", 0, "nenhum")},
             dur \in IF DespachaNoFim(sessao[s], j) THEN 1..MaxDuracao ELSE {1} :
             sessao' = [sessao EXCEPT ![s] = encerrar(@, j, resp, dur)]
    /\ UNCHANGED <<servico, modelo, exc_envio, agora, vagas, orcamento, f_texto, f_confianca, f_saida, c_resultado, c_saida, config, turno>>

\* Faulty variant of ClienteDesconecta: the departure of the peer cancels the
\* downstream call in flight and starts teardown.
ClienteDesconecta_cancela(s) ==
    /\ sessao[s].canal = "aberto"
    /\ sessao[s].pc \in {"aceita", "recebendo", "enviando_parcial", "despachando",
                        "tratando"}
    /\ sessao' = [sessao EXCEPT ![s] =
                      IF @.pc = "despachando"
                      THEN [Levantar(@, "WebSocketDisconnect") EXCEPT !.canal = "fechado"]
                      ELSE [@ EXCEPT !.canal = "fechado"]]
    /\ UNCHANGED <<servico, modelo, exc_envio, agora, vagas, orcamento, f_texto, f_confianca, f_saida, c_resultado, c_saida, config, turno>>

\* The peer leaves: nothing the server does can prevent or delay it.
ClienteDesconecta(s) ==
    /\ sessao[s].canal = "aberto"
    /\ sessao[s].pc \in {"aceita", "recebendo", "enviando_parcial", "despachando",
                        "tratando"}
    /\ sessao' = [sessao EXCEPT ![s].canal = "fechado"]
    /\ UNCHANGED <<servico, modelo, exc_envio, agora, vagas, orcamento, f_texto, f_confianca, f_saida, c_resultado, c_saida, config, turno>>

Next ==
    \/ Startup
    \/ \E s \in Sessoes : Aceitar(s)
    \/ \E s \in Sessoes : Iniciar(s)
    \/ \E s \in Sessoes : ReceberFrame(s)
    \/ \E s \in Sessoes : RetomarParcial(s)
    \/ \E s \in Sessoes : RetornoGlossa(s)
    \/ \E s \in Sessoes : TratarExcecao(s)
    \/ \E s \in Sessoes : Encerrar(s)
    \/ \E s \in Sessoes : ClienteDesconecta(s)

Spec == Init /\ [][Next]_vars

\* ----------------------------------------------------- deve_enviar on its own
Alfabeto == {"a", " "}
Textos == UNION {[1..n -> Alfabeto] : n \in 0..MaxTexto}
ConfiancasFiltro ==
    {None} \cup {Some(Flut(Frac(n, 100))) : n \in {0, 29, 30, 31, 100}}
    \cup {confianca_media(JsonVosk(TextoOla, <<>>,
                                    <<Palavra(Frac(3, 10), Frac(0, 1), Frac(1, 10)),
                                      Palavra(Frac(3, 10), Frac(0, 1), Frac(1, 1))>>))}

InitDeveEnviar ==
    /\ InitServidor
    /\ vagas = 0
    /\ orcamento = 0
    /\ f_texto \in Textos
    /\ f_confianca \in ConfiancasFiltro
    /\ f_saida = None
    /\ c_resultado = JsonVosk(<<>>, <<>>, <<>>)
    /\ c_saida = None
    /\ config = ConfiguracaoValida
    /\ turno = None

AvaliarDeveEnviar ==
    /\ IsNone(f_saida)
    /\ f_saida' = Some(deve_enviar(f_texto, f_confianca))
    /\ UNCHANGED <<servico, modelo, exc_envio, agora, vagas, orcamento, sessao, f_texto, f_confianca, c_resultado,
                   c_saida, config, turno>>

SpecDeveEnviar == InitDeveEnviar /\ [][AvaliarDeveEnviar]_vars

\* ------------------------------------------------------- several connections
\* NumSessoes peers connect; together they send at most MaxFrames frames.
InitVarias ==
    /\ InitServidor
    /\ vagas = NumSessoes
    /\ orcamento = MaxFrames
    /\ f_texto = <<>>
    /\ f_confianca = None
    /\ f_saida = None
    /\ c_resultado = JsonVosk(<<>>, <<>>, <<>>)
    /\ c_saida = None
    /\ config \in Configuracoes
    /\ turno = None

SpecVarias == InitVarias /\ [][Next]_vars

\* ------------------------------------- _calcular_confianca_media on its own
PalavrasVosk ==
    {Palavra(c, i, f) :
         c \in {Frac(0, 1), Frac(3, 10), Frac(1, 2), Frac(9, 10), Frac(1, 1)},
         i \in {Frac(0, 1), Frac(1, 2), Frac(1, 1)},
         f \in {Frac(1, 10), Frac(1, 2), Frac(1, 1)}}

ListasDePalavras == UNION {[1..n -> PalavrasVosk] : n \in 0..MaxPalavras}

InitConfianca ==
    /\ InitServidor
    /\ vagas = 0
    /\ orcamento = 0
    /\ f_texto = <<>>
    /\ f_confianca = None
    /\ f_saida = None
    /\ c_resultado \in {JsonVosk(TextoOla, <<>>, q) : q \in ListasDePalavras}
    /\ c_saida = None
    /\ config = ConfiguracaoValida
    /\ turno = None

AvaliarConfianca ==
    /\ IsNone(c_saida)
    /\ c_saida' = Some(calcular_confianca_media(c_resultado))
    /\ UNCHANGED <<servico, modelo, exc_envio, agora, vagas, orcamento, sessao, f_texto,
                   f_confianca, f_saida, c_resultado, config, turno>>

SpecConfianca == InitConfianca /\ [][AvaliarConfianca]_vars

\* ------------------------------------------- one turn of the loop on its own
\* Sessions waiting in receive_bytes(): one that has just started, one that
\* has sent a partial, and one that has sent the final of a filtered transcript.
SessaoIniciada ==
    iniciar([SessaoNova EXCEPT !.pc = "aceita", !.canal = "aberto"],
            obter_modelo([carregado |-> TRUE, instancia |-> Some(1), construcoes |-> 1],
                         TRUE),
            TRUE, "WebSocketDisconnect")

SessoesEmLoop ==
    {SessaoIniciada,
     retomar_parcial(
         receber(SessaoIniciada,
                 Evento("frame", TAMANHO_BUFFER_AUDIO,
                        [falha |-> FALSE, fronteira |-> FALSE,
                         json |-> JsonVosk(<<>>, <<"o">>, <<>>)], FALSE),
                 INTERVALO_EMISSAO_PARCIAL, "WebSocketDisconnect")),
     receber(SessaoIniciada,
             Evento("frame", TAMANHO_BUFFER_AUDIO,
                    [falha |-> FALSE, fronteira |-> TRUE,
                     json |-> JsonVosk(TextoOi, <<>>,
                                       <<Palavra(Frac(9, 10), Frac(0, 1), Frac(1, 2))>>)],
                    FALSE),
             INTERVALO_EMISSAO_PARCIAL, "WebSocketDisconnect")}

\* What receive_bytes() may bring, the empty frame taken with every answer the
\* recognizer would give if it were asked.
EventosTurno ==
    Eventos \cup {Evento("frame", 0, v, FALSE) : v \in SaidasVosk}

InitTurno ==
    /\ InitServidor
    /\ vagas = 0
    /\ orcamento = 0
    /\ f_texto = <<>>
    /\ f_confianca = None
    /\ f_saida = None
    /\ c_resultado = JsonVosk(<<>>, <<>>, <<>>)
    /\ c_saida = None
    /\ config = ConfiguracaoValida
    /\ turno \in {[sessao |-> x, ev |-> ev, lido |-> INTERVALO_EMISSAO_PARCIAL + e,
                    processado |-> None, recebido |-> None] :
                       x \in SessoesEmLoop, ev \in EventosTurno, e \in 0..MaxEspera}

AplicarProcessarAudio ==
    /\ turno.ev.tipo = "frame"
    /\ IsNone(turno.processado)
    /\ turno' = [turno EXCEPT !.processado =
                     Some(processar_audio(Val(turno.sessao.motor), turno.ev.tam,
                                          turno.ev.vosk))]
    /\ UNCHANGED <<servico, modelo, exc_envio, agora, vagas, orcamento, sessao, f_texto,
                   f_confianca, f_saida, c_resultado, c_saida, config>>

AplicarReceber ==
    /\ IsNone(turno.recebido)
    /\ turno' = [turno EXCEPT !.recebido =
                     Some(receber(turno.sessao, turno.ev, turno.lido, exc_envio))]
    /\ UNCHANGED <<servico, modelo, exc_envio, agora, vagas, orcamento, sessao, f_texto,
                   f_confianca, f_saida, c_resultado, c_saida, config>>

SpecTurno == InitTurno /\ [][AplicarProcessarAudio \/ AplicarReceber]_vars

\* ================================================================== claims
Ultimo(q) == q[Len(q)]
DoTipo(q, tp) == SelectSeq(q, LAMBDA m : m.type = tp)
Ativa(x) == x.pc \in {"recebendo", "enviando_parcial", "despachando"}
Encerrada(x) == x.pc \in {"encerrando", "terminada"}

\* C1 as stated: every session past INIT has sent exactly one session_started,
\* and whatever a session has sent starts with it.
C1_InicioSempre ==
    \A s \in Sessoes :
        LET e == sessao[s].enviadas
        IN /\ Len(DoTipo(e, "session_started")) <= 1
           /\ e # <<>> => e[1].type = "session_started"
           /\ sessao[s].pc \notin {"ocioso", "aceita", "tratando"} =>
                  Len(DoTipo(e, "session_started")) = 1

\* C1 amended: at most one session_started is sent, only as the first message;
\* no partial or final message precedes it and every session that reaches the
\* receive loop has sent it; a session that sent something else first failed in
\* setup and sent nothing but the one error message.
C1_InicioPrimeiro ==
    \A s \in Sessoes :
        LET e == sessao[s].enviadas
        IN /\ \A i \in DOMAIN e : e[i].type = "session_started" => i = 1
           /\ \A i \in DOMAIN e :
                  e[i].type \in {"partial", "final"} => e[1].type = "session_started"
           /\ Ativa(sessao[s]) => e # <<>> /\ e[1].type = "session_started"
           /\ (e # <<>> /\ e[1].type # "session_started") =>
                  /\ e = <<MensagemErro>>
                  /\ sessao[s].resultado_motor = SessaoNova.resultado_motor
                  /\ sessao[s].despachos = <<>>

\* a session that sent session_started, then a transcript, then an error
C1_Witness ==
    \E s \in Sessoes :
        LET e == sessao[s].enviadas
        IN /\ Len(e) = 3 /\ e[1].type = "session_started"
           /\ e[2].type \in {"partial", "final"} /\ e[3].type = "error"

\* C2: every call of enviar_para_glossa that is over has returned a
\* ResultadoDespachoGlossa: no exception left it, so none reached the gateway
\* (a call without a result is the one still waiting for requests.post).
C2_DespachoNuncaLevanta ==
    \A s \in Sessoes :
        LET d == sessao[s].despachos
        IN /\ \A i \in DOMAIN d :
                  IsNone(d[i].resultado) =>
                      /\ i = Len(d) /\ sessao[s].pc = "despachando"
                      /\ IsNone(d[i].resposta)
           /\ sessao[s].causa = "Exception" /\ d # <<>> =>
                  ~IsNone(Ultimo(d).resultado)

\* requests.post raised something unexpected, or the result could not be built
\* from a 2xx answer, and the call returned a result all the same
C2_Witness ==
    \E s \in Sessoes :
        /\ Len(sessao[s].despachos) = 2
        /\ LET d1 == sessao[s].despachos[1]
               d2 == sessao[s].despachos[2]
           IN /\ d1.resposta = Some([resp |-> Resposta("Exception", 0, "nenhum"), dur |-> 1])
              /\ IsNone(d1.confianca)
              /\ ~IsNone(d1.resultado) /\ Val(d1.resultado).error = Some("inesperado")
              /\ d2.resposta = Some([resp |-> Resposta("http", 200, "outro_json"), dur |-> 1])
              /\ ~IsNone(d2.confianca)
              /\ ~IsNone(d2.resultado) /\ Val(d2.resultado).error = Some("inesperado")

\* the downstream call of a step that ends one
FalhouDespacho(d) ==
    /\ ~IsNone(d.resposta) /\ ~IsNone(d.resultado)
    /\ ~IsNone(Val(d.resultado).error)

\* C3: when requests.post ends in a failure of any kind, the session stays in
\* the loop: with the peer still there, the step sends the final message that
\* carries the outcome, sends no error message, and waits for the next frame.
C3_FalhaNaoEncerra ==
    [][\A s \in Sessoes :
          (sessao[s].pc = "despachando" /\ sessao'[s].pc # "despachando") =>
              LET d == Ultimo(sessao'[s].despachos)
              IN /\ ~IsNone(d.resultado)
                 /\ (FalhouDespacho(d) /\ sessao[s].canal = "aberto") =>
                        /\ sessao'[s].pc = "recebendo"
                        /\ sessao'[s].causa = "nenhuma"
                        /\ ~sessao'[s].erro_tentado
                        /\ sessao'[s].enviadas =
                               Append(sessao[s].enviadas,
                                      MensagemTranscricaoFinal(
                                          sessao[s].pendente.texto,
                                          sessao[s].pendente.confianca,
                                          Val(d.resultado)))]_vars

\* two failed dispatches in a row, a timeout and an HTTP error, each reported
\* in its final message, and the session waits for the next frame
C3_Witness ==
    \E s \in Sessoes :
        LET e == sessao[s].enviadas
        IN /\ sessao[s].pc = "recebendo" /\ Len(e) = 3
           /\ e[2].type = "final" /\ Val(e[2].dispatch).error = Some("timeout")
           /\ e[3].type = "final" /\ Val(e[3].dispatch).error = Some("http")

\* C4 as stated: a teardown whose flush yields text calls enviar_para_glossa
\* with that text, and sends nothing.
C4_DespachoNoEncerramento ==
    \A s \in Sessoes :
        LET x == sessao[s]
        IN (x.pc = "terminada" /\ x.encerramento.finalizou
            /\ x.encerramento.flush # <<>>) =>
               /\ x.despachos # <<>>
               /\ Ultimo(x.despachos).origem = "encerramento"
               /\ Ultimo(x.despachos).texto = x.encerramento.flush

\* C5 as stated: a session torn down by a caught exception has delivered an
\* error message as its last message.
C5_ErroSempreEntregue ==
    \A s \in Sessoes :
        (Encerrada(sessao[s]) /\ sessao[s].causa = "Exception") =>
            /\ sessao[s].enviadas # <<>>
            /\ Ultimo(sessao[s].enviadas).type = "error"

\* C5 amended: a teardown caused by a caught exception goes through one attempt
\* to send the error message before the finally block; the message is
\* delivered when the peer is still there, and when the peer has left the
\* failed send is swallowed and nothing is delivered.
C5_ErroMelhorEsforco ==
    [][\A s \in Sessoes :
          /\ (sessao'[s].causa = "Exception" /\ sessao'[s].pc = "encerrando"
              /\ sessao[s].pc # "encerrando") =>
                 /\ sessao[s].pc = "tratando"
                 /\ sessao'[s].erro_tentado
                 /\ sessao'[s].enviadas =
                        IF sessao[s].canal = "aberto"
                        THEN Append(sessao[s].enviadas, MensagemErro)
                        ELSE sessao[s].enviadas
          /\ (sessao'[s].causa = "Exception" /\ sessao[s].causa # "Exception") =>
                 sessao'[s].pc = "tratando"
          /\ (sessao'[s].causa = "Exception" /\ sessao'[s].pc = "terminada") =>
                 sessao'[s].erro_tentado]_vars

\* the recognizer failed on a frame and the error message was delivered before
\* teardown
C5_Witness ==
    \E s \in Sessoes :
        /\ sessao[s].pc = "terminada" /\ sessao[s].causa = "Exception"
        /\ Len(sessao[s].enviadas) = 2
        /\ Ultimo(sessao[s].enviadas) = MensagemErro
        /\ Val(sessao[s].motor).bytes_processados > 0

\* C6: once a WebSocketDisconnect has ended the loop, nothing more is sent: the
\* messages of the session are those sent before it, and no send of an error
\* message is attempted.
C6_DesconexaoSilenciosa ==
    [][\A s \in Sessoes :
          sessao'[s].causa = "WebSocketDisconnect" =>
              /\ sessao'[s].enviadas = sessao[s].enviadas
              /\ ~sessao'[s].erro_tentado
              /\ sessao'[s].pc \in {"encerrando", "terminada"}
              /\ DoTipo(sessao'[s].enviadas, "error") = <<>>]_vars

\* the peer left after a final message; the session is over and sent no more
C6_Witness ==
    \E s \in Sessoes :
        /\ sessao[s].pc = "terminada" /\ sessao[s].causa = "WebSocketDisconnect"
        /\ Len(sessao[s].enviadas) = 2
        /\ Ultimo(sessao[s].enviadas).type = "final"

\* C7: while the session is in the loop, each frame the engine classified as
\* final caused one call of enviar_para_glossa with the engine's text and
\* confidence, and, once that call has returned, one final message with that
\* text, that confidence and the outcome returned; the i-th final message
\* belongs to the i-th call, whatever the throttle of partials did.
C7_FinalDespachaEEmite ==
    \A s \in Sessoes :
        LET x == sessao[s]
            fin == DoTipo(x.enviadas, "final")
            d == x.despachos
        IN (Ativa(x) /\ ~IsNone(x.motor) /\ ~IsNone(x.orq)) =>
               /\ Len(d) = Val(x.motor).transcricoes_finais
               /\ Val(x.orq).total_envios = Val(x.motor).transcricoes_finais
               /\ Len(fin) = IF x.pc = "despachando" THEN Len(d) - 1 ELSE Len(d)
               /\ \A i \in DOMAIN fin :
                      /\ ~IsNone(d[i].resultado)
                      /\ fin[i] = MensagemTranscricaoFinal(d[i].texto, d[i].confianca,
                                                           Val(d[i].resultado))
               /\ x.resultado_motor.is_final =>
                      /\ d # <<>>
                      /\ Ultimo(d).texto = x.resultado_motor.texto
                      /\ Ultimo(d).confianca = x.resultado_motor.confianca
               /\ x.pc = "despachando" =>
                      /\ x.resultado_motor.is_final
                      /\ x.pendente.texto = x.resultado_motor.texto
                      /\ x.pendente.confianca = x.resultado_motor.confianca

\* a partial went out, and the final that came within the throttle interval
\* was dispatched and sent all the same
C7_Witness ==
    \E s \in Sessoes :
        LET x == sessao[s]
        IN /\ x.pc = "recebendo" /\ Len(x.enviadas) = 3
           /\ x.enviadas[2].type = "partial" /\ x.enviadas[3].type = "final"
           /\ agora - x.ultima_emissao_parcial < INTERVALO_EMISSAO_PARCIAL
           /\ x.posts = 1
           /\ Val(x.enviadas[3].dispatch).response_status = Some(200)

\* C8: requests.post is called once by each call of enviar_para_glossa whose
\* transcript passes deve_enviar and by no other, and never again after a
\* failure; a filtered call has no downstream answer and returns an outcome
\* with request_sent false and an error.
C8_PostSoPeloFiltro ==
    \A s \in Sessoes :
        LET d == sessao[s].despachos
            passa == {i \in DOMAIN d : deve_enviar(d[i].texto, d[i].confianca)}
        IN /\ sessao[s].posts = Cardinality(passa)
           /\ \A i \in DOMAIN d :
                  i \notin passa =>
                      /\ IsNone(d[i].resposta)
                      /\ ~IsNone(d[i].resultado)
                      /\ Val(d[i].resultado).request_sent = FALSE
                      /\ ~IsNone(Val(d[i].resultado).error)
           /\ \A i \in passa :
                  ~IsNone(d[i].resposta) \/ (i = Len(d) /\ sessao[s].pc = "despachando")

\* one transcript filtered and one posted, whose request failed on the network
C8_Witness ==
    \E s \in Sessoes :
        LET d == sessao[s].despachos
        IN /\ Len(d) = 2 /\ sessao[s].posts = 1
           /\ ~deve_enviar(d[1].texto, d[1].confianca)
           /\ ~IsNone(d[2].resultado)
           /\ Val(d[2].resultado).error = Some("rede")

\* the length of str.strip() of t, counted on t itself
ComprimentoAparado(t) ==
    LET cheios == {i \in DOMAIN t : t[i] \notin Espacos}
    IN IF cheios = {} THEN 0
       ELSE (CHOOSE b \in cheios : \A i \in cheios : i <= b)
            - (CHOOSE a \in cheios : \A i \in cheios : a <= i) + 1

\* C9: deve_enviar(text, confidence) is (trimmed length >= 3) and (confidence
\* unknown or confidence >= 0.3).
C9_FiltroFormaFechada ==
    ~IsNone(f_saida) =>
        Val(f_saida) =
            (/\ ComprimentoAparado(f_texto) >= 3
             /\ (IsNone(f_confianca) \/ ~FlutMenor(Val(f_confianca), Flut(Frac(3, 10)))))

\* accepted at a confidence of exactly 0.3, with a text of three characters
\* between spaces
C9_Witness ==
    /\ f_saida = Some(TRUE)
    /\ f_confianca = Some(Flut(Frac(3, 10)))
    /\ Len(f_texto) > 3 /\ ComprimentoAparado(f_texto) = 3

\* C10 as stated: an answer with a status in [200, 300) makes the call a
\* success whatever its body: request_sent true, that status, no error, one
\* more success and no more failures.
C10_SucessoQualquerCorpo ==
    [][\A s \in Sessoes :
          (sessao[s].pc = "despachando" /\ sessao'[s].pc # "despachando") =>
              LET d == Ultimo(sessao'[s].despachos)
                  resp == Val(d.resposta).resp
              IN (resp.tipo = "http" /\ 200 <= resp.status /\ resp.status < 300) =>
                     /\ ~IsNone(d.resultado)
                     /\ Val(d.resultado).request_sent = TRUE
                     /\ Val(d.resultado).response_status = Some(resp.status)
                     /\ IsNone(Val(d.resultado).error)
                     /\ Val(sessao'[s].orq).envios_sucesso =
                            Val(sessao[s].orq).envios_sucesso + 1
                     /\ Val(sessao'[s].orq).envios_falha =
                            Val(sessao[s].orq).envios_falha]_vars

\* the step in which requests.post of session s ends
FimDoPost(s) == sessao[s].pc = "despachando" /\ sessao'[s].pc # "despachando"

\* the failure counter grew by one and the success counter stood still
SoFalhaContada(s) ==
    /\ Val(sessao'[s].orq).envios_falha = Val(sessao[s].orq).envios_falha + 1
    /\ Val(sessao'[s].orq).envios_sucesso = Val(sessao[s].orq).envios_sucesso

\* C11: a failed dispatch is classified by its cause: a timeout gives
\* request_sent true, no status and the timeout error; an HTTP status outside
\* [200, 300) gives request_sent true, that status and an error; another
\* RequestException gives request_sent false, no status and the network error;
\* each adds one to envios_falha and leaves envios_sucesso alone.
C11_FalhaClassificada ==
    [][\A s \in Sessoes :
          FimDoPost(s) =>
              LET d == Ultimo(sessao'[s].despachos)
                  resp == Val(d.resposta).resp
                  r == Val(d.resultado)
              IN /\ resp.tipo = "Timeout" =>
                        /\ r.request_sent = TRUE /\ IsNone(r.response_status)
                        /\ r.error = Some("timeout")
                        /\ SoFalhaContada(s)
                 /\ (resp.tipo = "http" /\ ~(200 <= resp.status /\ resp.status < 300)) =>
                        /\ r.request_sent = TRUE
                        /\ r.response_status = Some(resp.status)
                        /\ r.error = Some("http")
                        /\ SoFalhaContada(s)
                 /\ resp.tipo = "RequestException" =>
                        /\ r.request_sent = FALSE /\ IsNone(r.response_status)
                        /\ r.error = Some("rede")
                        /\ SoFalhaContada(s)]_vars

\* a timeout and then a network failure, both counted as failures only
C11_Witness ==
    \E s \in Sessoes :
        LET d == sessao[s].despachos
        IN /\ Len(d) = 2
           /\ ~IsNone(d[1].resultado) /\ Val(d[1].resultado).error = Some("timeout")
           /\ Val(d[1].resultado).request_sent = TRUE
           /\ ~IsNone(d[2].resultado) /\ Val(d[2].resultado).error = Some("rede")
           /\ Val(d[2].resultado).request_sent = FALSE
           /\ Val(sessao[s].orq).envios_falha = 2
           /\ Val(sessao[s].orq).envios_sucesso = 0

\* the calls of enviar_para_glossa that were classified as success
Sucedido(d) ==
    /\ ~IsNone(d.resultado)
    /\ Val(d.resultado).request_sent = TRUE /\ IsNone(Val(d.resultado).error)

RECURSIVE SomaDuracoesSucesso(_)
SomaDuracoesSucesso(d) ==
    IF d = <<>> THEN 0
    ELSE (IF Sucedido(Head(d)) THEN Val(Head(d).resposta).dur ELSE 0)
         + SomaDuracoesSucesso(Tail(d))

\* C12 as stated: latencia_total_ms is the sum of the durations of the
\* dispatches classified as success; filtered, non-2xx, timed-out and failed
\* dispatches leave it unchanged.
C12_LatenciaSoSucesso ==
    \A s \in Sessoes :
        ~IsNone(sessao[s].orq) =>
            Val(sessao[s].orq).latencia_total_ms =
                SomaDuracoesSucesso(sessao[s].despachos)

\* the step sends a partial message of session s
EnviaParcial(s) ==
    /\ Len(sessao'[s].enviadas) = Len(sessao[s].enviadas) + 1
    /\ Ultimo(sessao'[s].enviadas).type = "partial"

\* C13: a partial message is sent only when the clock reads at least
\* INTERVALO_EMISSAO_PARCIAL more than it did when the previous partial of the
\* session was sent.  The reading taken before a partial is sent is at least
\* the interval past ultima_emissao_parcial; it becomes ultima_emissao_parcial
\* when the send returns, before the session takes another frame; and
\* ultima_emissao_parcial (0 before the first partial) changes at no other
\* step.
C13_ParciaisEspacadas ==
    [][\A s \in Sessoes :
          LET x == sessao[s]
              y == sessao'[s]
          IN /\ EnviaParcial(s) =>
                    /\ x.pc = "recebendo"
                    /\ agora' - x.ultima_emissao_parcial >= INTERVALO_EMISSAO_PARCIAL
                    /\ y.pc = "enviando_parcial" /\ y.agora = Some(agora')
                    /\ y.ultima_emissao_parcial = x.ultima_emissao_parcial
             /\ ~EnviaParcial(s) =>
                    DoTipo(y.enviadas, "partial") = DoTipo(x.enviadas, "partial")
             /\ x.pc = "enviando_parcial" =>
                    /\ y.motor = x.motor
                    /\ y.pc = "enviando_parcial" =>
                           y.ultima_emissao_parcial = x.ultima_emissao_parcial
                    /\ y.pc # "enviando_parcial" =>
                           /\ y.pc = "recebendo"
                           /\ y.ultima_emissao_parcial = Val(x.agora)
             /\ x.pc # "enviando_parcial" =>
                    y.ultima_emissao_parcial = x.ultima_emissao_parcial
             /\ DoTipo(x.enviadas, "partial") = <<>> => x.ultima_emissao_parcial = 0]_vars

\* two frames brought a partial hypothesis each; the first was sent and the
\* second, read a quarter of a second later, was held back
C13_Witness ==
    \E s \in Sessoes :
        /\ sessao[s].pc = "recebendo"
        /\ Val(sessao[s].motor).transcricoes_parciais = 2
        /\ Len(DoTipo(sessao[s].enviadas, "partial")) = 1
        /\ agora - sessao[s].ultima_emissao_parcial = 1
        /\ sessao[s].resultado_motor.texto # sessao[s].enviadas[2].text

\* the step accepts a frame of audio of session s
AceitaFrame(s) ==
    /\ ~IsNone(sessao[s].motor)
    /\ Val(sessao'[s].motor).bytes_processados > Val(sessao[s].motor).bytes_processados

\* C14: messages leave in the order in which their frames were accepted.  A
\* step sends at most one message and puts it after those already sent; a
\* partial or final message carries the result of the last frame accepted,
\* and is sent before the next frame is accepted: a partial in the step that
\* accepted its frame, a final in that step or in the one that ends the
\* downstream call, during which no frame is accepted.  When a message goes
\* out, the final of every utterance that ended before its frame has gone
\* out, so no partial of an utterance follows the final of that utterance.
C14_OrdemDeIngestao ==
    [][\A s \in Sessoes :
          LET e == sessao[s].enviadas
              n == sessao'[s].enviadas
              m == Ultimo(n)
              rm == sessao'[s].resultado_motor
          IN /\ n = e \/ (Len(n) = Len(e) + 1 /\ SubSeq(n, 1, Len(e)) = e)
             /\ sessao[s].pc \in {"despachando", "enviando_parcial"} =>
                    /\ ~AceitaFrame(s)
                    /\ sessao'[s].resultado_motor = sessao[s].resultado_motor
             /\ (n # e /\ m.type = "partial") =>
                    /\ AceitaFrame(s)
                    /\ ~rm.is_final /\ m.text = rm.texto /\ m.confidence = rm.confianca
                    /\ Len(DoTipo(e, "final")) = Val(sessao'[s].motor).transcricoes_finais
             /\ (n # e /\ m.type = "final") =>
                    /\ AceitaFrame(s) \/ sessao[s].pc = "despachando"
                    /\ rm.is_final /\ m.text = rm.texto /\ m.confidence = rm.confianca
                    /\ Len(DoTipo(n, "final")) = Val(sessao'[s].motor).transcricoes_finais
             /\ (AceitaFrame(s) /\ sessao'[s].pc \in {"recebendo", "enviando_parcial"}) =>
                    Len(DoTipo(n, "final")) = Val(sessao'[s].motor).transcricoes_finais]_vars

\* a partial of the first utterance, then its final after a downstream call,
\* in that order
C14_Witness ==
    \E s \in Sessoes :
        LET e == sessao[s].enviadas
        IN /\ Len(e) = 3 /\ e[2].type = "partial" /\ e[3].type = "final"
           /\ e[2].text = <<"o", "l">> /\ e[3].text = TextoOla
           /\ Val(sessao[s].motor).transcricoes_parciais = 1
           /\ Val(sessao[s].motor).transcricoes_finais = 1
           /\ ~IsNone(sessao[s].despachos[1].resposta)

\* every frame the engine of x has processed so far yielded empty text
SoSilencio(x) ==
    /\ ~IsNone(x.motor)
    /\ Val(x.motor).transcricoes_parciais = 0
    /\ Val(x.motor).transcricoes_finais = 0

\* C15: a session whose processed frames all yielded empty text, with or
\* without a boundary, has sent no partial and no final message and has not
\* called enviar_para_glossa in the loop; until an exception or the peer's
\* departure ends the loop, session_started is the only message it has sent.
C15_SilencioSemMensagens ==
    \A s \in Sessoes :
        LET x == sessao[s]
        IN SoSilencio(x) =>
               /\ DoTipo(x.enviadas, "partial") = <<>>
               /\ DoTipo(x.enviadas, "final") = <<>>
               /\ \A i \in DOMAIN x.despachos : x.despachos[i].origem # "loop"
               /\ x.pc \in {"recebendo", "encerrando", "terminada"} => x.posts = 0
               /\ Val(x.orq).total_envios = Len(x.despachos)
               /\ Ativa(x) => x.enviadas = <<MensagemSessaoIniciada>>
               /\ x.causa # "Exception" =>
                      x.enviadas \in {<<>>, <<MensagemSessaoIniciada>>}

\* two frames of silence were processed and the session, still in the loop,
\* has sent session_started only
C15_Witness ==
    \E s \in Sessoes :
        /\ sessao[s].pc = "recebendo" /\ SoSilencio(sessao[s])
        /\ Val(sessao[s].motor).bytes_processados = 2 * TAMANHO_BUFFER_AUDIO
        /\ sessao[s].enviadas = <<MensagemSessaoIniciada>>
        /\ sessao[s].despachos = <<>>

\* C16 as stated: while one session is inside requests.post, another session
\* that is waiting in receive_bytes() for a frame its peer has sent can take
\* its turn of the loop, process the frame and send its messages.
C16_OutrasSessoesLivres ==
    \A s, t \in Sessoes :
        (/\ s # t
         /\ sessao[s].pc = "despachando"
         /\ sessao[t].pc = "recebendo" /\ sessao[t].canal = "aberto"
         /\ orcamento > 0) =>
            ENABLED ReceberFrame(t)

\* C17: the Model constructor succeeds at most once in the life of the
\* process, the instance it built is never replaced, and the recognizer of
\* every engine is built on that instance.
C17_ModeloUnico ==
    [][/\ modelo'.construcoes <= 1
       /\ ~IsNone(modelo.instancia) => modelo' = modelo
       /\ \A s \in Sessoes :
              ~IsNone(sessao'[s].motor) =>
                  /\ ~IsNone(modelo'.instancia)
                  /\ sessao'[s].modelo_motor = modelo'.instancia]_vars

\* the preload built the model and two sessions built their engines on it
C17_Witness ==
    /\ modelo.construcoes = 1 /\ modelo.carregado
    /\ \A s \in Sessoes :
           /\ ~IsNone(sessao[s].motor)
           /\ sessao[s].modelo_motor = modelo.instancia
    /\ \E s \in Sessoes : Val(sessao[s].motor).bytes_processados > 0

\* the step is the failure of session s, its handling or its teardown
PassoDeFalha(s) ==
    /\ sessao'[s].causa = "Exception"
    /\ sessao'[s] # sessao[s]

\* C18: an exception in one session ends that session only.  At the step in
\* which it is raised, at the step that handles it and at the step that tears
\* the session down, every other session that is in its loop stays there, and
\* its engine counters, its orchestrator counters and its throttle timestamp
\* are what they were.
C18_FalhaIsolada ==
    [][\A s, t \in Sessoes :
          (s # t /\ PassoDeFalha(s) /\ Ativa(sessao[t])) =>
              /\ Ativa(sessao'[t])
              /\ sessao'[t].pc = sessao[t].pc
              /\ sessao'[t].causa = "nenhuma"
              /\ sessao'[t].motor = sessao[t].motor
              /\ sessao'[t].orq = sessao[t].orq
              /\ sessao'[t].ultima_emissao_parcial = sessao[t].ultima_emissao_parcial
              /\ sessao'[t].enviadas = sessao[t].enviadas]_vars

\* the recognizer of one session failed on a frame and the session was torn
\* down after its error message, while the other, which had sent a
\* transcript, is still in its loop
C18_Witness ==
    \E s, t \in Sessoes :
        /\ s # t
        /\ sessao[s].pc = "terminada" /\ sessao[s].causa = "Exception"
        /\ ~IsNone(sessao[s].motor) /\ ~IsNone(sessao[t].motor)
        /\ Val(sessao[s].motor).bytes_processados = TAMANHO_BUFFER_AUDIO
        /\ sessao[s].enviadas = <<MensagemSessaoIniciada, MensagemErro>>
        /\ sessao[t].pc = "recebendo" /\ sessao[t].causa = "nenhuma"
        /\ Val(sessao[t].motor).bytes_processados = TAMANHO_BUFFER_AUDIO
        /\ Len(sessao[t].enviadas) = 2

\* the exact sum of the numbers of q
RECURSIVE SomaExata(_)
SomaExata(q) == IF q = <<>> THEN FlutZero ELSE DiSoma(Head(q), SomaExata(Tail(q)))

\* the words of q whose duration is positive, in their order
Positivas(q) == SelectSeq(q, LAMBDA p : FlutMenor(p.start, p.end))

DiAbs(x) == [x EXCEPT !.neg = FALSE]

\* r is a / b to within the rounding of the float operations that computed
\* it: |r * b - a| <= |a| / 2^48
Proximo(r, a, b) ==
    ~DiMenor([DiAbs(a) EXCEPT !.e = @ - 48], DiAbs(DiSub(DiMul(r, b), a)))

\* C19: the confidence of a result is the mean of the confidences of its
\* words weighted by duration, over the words of positive duration; when no
\* word has a positive duration it is the plain mean over all the words; when
\* there is no word list it is unknown, not zero.  The result is a float: it
\* is the mean of the words' floats to within the rounding of the operations
\* that compute it.  For the words (0.9, 0 to 0.5) and (0.5, 0.5 to 1) it is
\* the float 0.7.
C19_ConfiancaPonderada ==
    ~IsNone(c_saida) =>
        LET q == c_resultado.result
            pos == Positivas(q)
            dur == [i \in DOMAIN pos |-> DiSub(pos[i].end, pos[i].start)]
            peso == [i \in DOMAIN pos |-> DiMul(pos[i].conf, dur[i])]
            conf == [i \in DOMAIN q |-> q[i].conf]
        IN /\ q = <<>> => Val(c_saida) = None
           /\ q # <<>> => ~IsNone(Val(c_saida))
           /\ (q # <<>> /\ pos # <<>>) =>
                  Proximo(Val(Val(c_saida)), SomaExata(peso), SomaExata(dur))
           /\ (q # <<>> /\ pos = <<>>) =>
                  Proximo(Val(Val(c_saida)), SomaExata(conf), FlutDeInt(Len(q)))
           /\ q = <<Palavra(Frac(9, 10), Frac(0, 1), Frac(1, 2)),
                    Palavra(Frac(1, 2), Frac(1, 2), Frac(1, 1))>> =>
                  Val(c_saida) = Some(Flut(Frac(7, 10)))

\* a word of positive duration and one of negative duration: the result is
\* the confidence of the first alone
C19_Witness ==
    /\ c_resultado.result = <<Palavra(Frac(9, 10), Frac(0, 1), Frac(1, 2)),
                              Palavra(Frac(1, 2), Frac(1, 1), Frac(1, 2))>>
    /\ c_saida = Some(Some(Flut(Frac(9, 10))))

\* the configurations the claim names: model path unset, absent, not a
\* directory, or a sample rate outside the supported ones
ConfiguracaoRecusada(c) ==
    \/ c.caminho \in {"nenhum", "vazio", "ausente", "arquivo"}
    \/ c.taxa \notin {8000, 16000, 32000, 44100, 48000}

\* C20: the server accepts connections only after validar() has passed and
\* the model has been loaded; validar() raises when the model path is unset,
\* does not exist or is not a directory, and when the sample rate is not a
\* supported one, and a process so configured never serves.
C20_FalhaRapida ==
    /\ servico = "servindo" =>
           /\ ~ConfiguracaoRecusada(config)
           /\ modelo.carregado /\ ~IsNone(modelo.instancia)
    /\ \A s \in Sessoes : sessao[s].pc # "ocioso" => servico = "servindo"
    /\ ConfiguracaoRecusada(config) =>
           /\ \A mkdir_ok \in BOOLEAN : validar(config, mkdir_ok) # "ok"
           /\ servico \in {"parado", "falhou"}

\* a model directory that exists with a sample rate of 22050 Hz: startup
\* failed and the model was never loaded
C20_Witness ==
    /\ servico = "falhou"
    /\ config = Configuracao("diretorio", 22050)
    /\ modelo = ModeloNovo

\* C21 as stated: finalizar_sessao returns: the flushed text with its
\* confidence whenever the text is not empty, whether the confidence is known
\* or not, and None exactly when the text is empty.
C21_FinalizacaoRetorna ==
    \A s \in Sessoes :
        LET t == sessao[s].encerramento
        IN t.finalizou =>
               /\ IsNone(t.exc)
               /\ t.valor = IF t.flush = <<>> THEN None
                            ELSE Some([texto |-> t.flush, confianca |-> t.confianca])

\* C22 as stated: a session whose engine and orchestrator were constructed
\* is not terminated before teardown has read the statistics of both.
C22_EstatisticasLidas ==
    \A s \in Sessoes :
        LET x == sessao[s]
        IN (x.pc = "terminada" /\ ~IsNone(x.motor) /\ ~IsNone(x.orq)) =>
               x.encerramento.stats = {"motor", "orquestrador"}

\* whether a text has a character that is not a space
TemTexto(t) == \E i \in DOMAIN t : t[i] \notin Espacos

\* C23: processar_audio puts each frame in exactly one of three classes.  A
\* boundary with text returns (final, text, confidence) and adds one to the
\* final counter only; a boundary without text returns the empty non-final
\* result and changes no counter; no boundary with a hypothesis returns
\* (non-final, text, unknown confidence) and adds one to the partial counter
\* only; no boundary and no hypothesis returns the empty result and changes no
\* counter.
C23_TresClasses ==
    (turno # None /\ ~IsNone(turno.processado) /\ ~turno.ev.vosk.falha) =>
        LET m == Val(turno.sessao.motor)
            v == turno.ev.vosk
            r == Val(turno.processado)
            vazio == ~r.is_final /\ r.texto = <<>> /\ IsNone(r.confianca)
        IN /\ ~r.exc
           /\ r.motor.bytes_processados = m.bytes_processados + turno.ev.tam
           /\ (v.fronteira /\ TemTexto(v.json.text)) =>
                  /\ r.is_final /\ r.texto = strip(v.json.text)
                  /\ r.confianca = calcular_confianca_media(v.json)
                  /\ r.motor.transcricoes_finais = m.transcricoes_finais + 1
                  /\ r.motor.transcricoes_parciais = m.transcricoes_parciais
           /\ (v.fronteira /\ ~TemTexto(v.json.text)) =>
                  /\ vazio
                  /\ r.motor.transcricoes_finais = m.transcricoes_finais
                  /\ r.motor.transcricoes_parciais = m.transcricoes_parciais
           /\ (~v.fronteira /\ TemTexto(v.json.partial)) =>
                  /\ ~r.is_final /\ r.texto = strip(v.json.partial)
                  /\ IsNone(r.confianca)
                  /\ r.motor.transcricoes_parciais = m.transcricoes_parciais + 1
                  /\ r.motor.transcricoes_finais = m.transcricoes_finais
           /\ (~v.fronteira /\ ~TemTexto(v.json.partial)) =>
                  /\ vazio
                  /\ r.motor.transcricoes_finais = m.transcricoes_finais
                  /\ r.motor.transcricoes_parciais = m.transcricoes_parciais

\* a boundary whose text is a lone space, on an engine that had counted one
\* final: the empty result, and the counters as they were
C23_Witness ==
    /\ turno # None /\ ~IsNone(turno.processado)
    /\ turno.ev.vosk.fronteira /\ turno.ev.vosk.json.text = <<" ">>
    /\ turno.ev.tam = TAMANHO_BUFFER_AUDIO
    /\ Val(turno.sessao.motor).transcricoes_finais = 1
    /\ Val(turno.processado).motor.transcricoes_finais = 1
    /\ Val(turno.processado).texto = <<>> /\ ~Val(turno.processado).is_final

\* C24: only final transcripts are dispatched.  A turn of the loop whose frame
\* was classified as partial or empty leaves the orchestrator as it was;
\* wherever the loop waits for a frame total_envios equals
\* transcricoes_finais; and teardown adds one attempt at most.
C24_SoFinaisDespacham ==
    [][\A s \in Sessoes :
          LET x == sessao'[s]
          IN /\ (AceitaFrame(s) /\ Val(x.motor).transcricoes_finais
                                      = Val(sessao[s].motor).transcricoes_finais) =>
                    /\ x.orq = sessao[s].orq
                    /\ x.despachos = sessao[s].despachos
             /\ (~IsNone(x.motor) /\ ~IsNone(x.orq)) =>
                    /\ Ativa(x) =>
                           Val(x.orq).total_envios = Val(x.motor).transcricoes_finais
                    /\ Val(x.orq).total_envios >= Val(x.motor).transcricoes_finais
                    /\ Val(x.orq).total_envios <= Val(x.motor).transcricoes_finais + 1
                    /\ Val(x.orq).total_envios > Val(x.motor).transcricoes_finais =>
                           /\ x.pc = "terminada"
                           /\ Ultimo(x.despachos).origem = "encerramento"]_vars

\* a partial and then a final: one attempt, made by the final
C24_Witness ==
    \E s \in Sessoes :
        /\ sessao[s].pc = "recebendo"
        /\ Val(sessao[s].motor).transcricoes_parciais = 1
        /\ Val(sessao[s].motor).transcricoes_finais = 1
        /\ Val(sessao[s].orq).total_envios = 1
        /\ Len(sessao[s].despachos) = 1

\* C25: a dispatch blocks its session and cannot be cancelled.  While the
\* session is inside requests.post it accepts no frame, sends nothing, and
\* neither handles an exception nor starts teardown, even when the peer
\* leaves; it leaves the call only with the answer of requests.post and the
\* result of enviar_para_glossa, and a peer that left meanwhile is noticed by
\* the send that follows.
C25_DespachoBloqueia ==
    [][\A s \in Sessoes :
          sessao[s].pc = "despachando" =>
              LET x == sessao[s]
                  y == sessao'[s]
              IN /\ y.pc = "despachando" =>
                        y = [x EXCEPT !.canal = y.canal]
                 /\ y.pc # "despachando" =>
                        /\ ~IsNone(Ultimo(y.despachos).resposta)
                        /\ ~IsNone(Ultimo(y.despachos).resultado)
                        /\ y.motor = x.motor
                        /\ x.canal = "fechado" =>
                               /\ y.causa = exc_envio
                               /\ y.enviadas = x.enviadas
                               /\ y.pc \in {"tratando", "encerrando"}
                        /\ x.canal = "aberto" =>
                               /\ y.pc = "recebendo"
                               /\ Len(y.enviadas) = Len(x.enviadas) + 1]_vars

\* the peer left during the downstream call, which was answered all the same
\* before the failed send of the final message ended the loop
C25_Witness ==
    \E s \in Sessoes :
        LET x == sessao[s]
        IN /\ x.pc = "encerrando" /\ x.causa = "WebSocketDisconnect"
           /\ x.canal = "fechado"
           /\ Len(x.despachos) = 1
           /\ x.despachos[1].resposta
                  = Some([resp |-> Resposta("http", 200, "objeto"), dur |-> 1])
           /\ DoTipo(x.enviadas, "final") = <<>>

\* the lifecycle state of a session: INIT (1) from accept() to the loop,
\* ACTIVE (2) in the loop, CLOSING (3) in the except and finally clauses,
\* TERMINATED (4); 0 before the connection exists
Fase(x) ==
    CASE x.pc = "ocioso" -> 0
      [] x.pc = "aceita" -> 1
      [] x.pc \in {"recebendo", "enviando_parcial", "despachando"} -> 2
      [] x.pc \in {"tratando", "encerrando"} -> 3
      [] x.pc = "terminada" -> 4

\* C26: the lifecycle only moves forward, INIT, ACTIVE, CLOSING, TERMINATED,
\* and enters no state again; a session that leaves ACTIVE, by an error or by
\* a disconnect, is in CLOSING; and a session past ACTIVE accepts no frame,
\* passes nothing to processar_audio and sends no partial, final or
\* session_started message.
C26_CicloSoAvanca ==
    [][\A s \in Sessoes :
          LET x == sessao[s]
              y == sessao'[s]
          IN /\ Fase(y) >= Fase(x)
             /\ Fase(y) <= Fase(x) + 1 \/ (Fase(x) = 1 /\ Fase(y) = 3)
             /\ (Fase(x) = 2 /\ Fase(y) # 2) =>
                    /\ Fase(y) = 3
                    /\ y.causa \in {"WebSocketDisconnect", "Exception"}
             /\ Fase(x) >= 3 =>
                    /\ y.motor = x.motor
                    /\ y.resultado_motor = x.resultado_motor
                    /\ y.ultima_emissao_parcial = x.ultima_emissao_parcial
                    /\ \A tp \in {"session_started", "partial", "final"} :
                           DoTipo(y.enviadas, tp) = DoTipo(x.enviadas, tp)]_vars

\* a session that went through the four states: it sent a partial, its
\* recognizer failed on the second frame, and it was torn down
C26_Witness ==
    \E s \in Sessoes :
        /\ sessao[s].pc = "terminada" /\ sessao[s].causa = "Exception"
        /\ ~IsNone(sessao[s].motor)
        /\ Val(sessao[s].motor).bytes_processados = 2 * TAMANHO_BUFFER_AUDIO
        /\ Len(sessao[s].enviadas) = 3
        /\ sessao[s].enviadas[2].type = "partial"
        /\ sessao[s].enviadas[3].type = "error"

\* C27: an empty frame is ignored.  Whatever the recognizer would answer, the
\* turn of the loop that receives it leaves bytes_processados, the partial
\* and final counters, the orchestrator's counters and the throttle timestamp
\* as they were, sends nothing, calls neither the engine nor the orchestrator,
\* and the session goes on waiting for the next frame.
C27_FrameVazioIgnorado ==
    (/\ turno # None /\ ~IsNone(turno.recebido)
     /\ turno.ev.tipo = "frame" /\ turno.ev.tam = 0) =>
        LET x == turno.sessao
            y == Val(turno.recebido)
        IN /\ y.pc = "recebendo" /\ y.causa = "nenhuma"
           /\ y.motor = x.motor
           /\ y.orq = x.orq
           /\ y.ultima_emissao_parcial = x.ultima_emissao_parcial
           /\ y.enviadas = x.enviadas
           /\ y.despachos = x.despachos /\ y.posts = x.posts
           /\ y.resultado_motor = x.resultado_motor
           /\ y = x

\* an empty frame arrives at a session that has sent a partial, at a moment
\* when the recognizer holds a new hypothesis and the throttle would let it
\* through: nothing is sent
C27_Witness ==
    /\ turno # None /\ ~IsNone(turno.recebido)
    /\ turno.ev.tipo = "frame" /\ turno.ev.tam = 0
    /\ ~turno.ev.vosk.fronteira /\ turno.ev.vosk.json.partial = <<"o", "l", " ">>
    /\ Val(turno.sessao.motor).transcricoes_parciais = 1
    /\ turno.lido - turno.sessao.ultima_emissao_parcial >= INTERVALO_EMISSAO_PARCIAL
    /\ Len(Val(turno.recebido).enviadas) = 2

\* the calls of enviar_para_glossa the filter rejected
Filtrados(d) == {i \in DOMAIN d : ~deve_enviar(d[i].texto, d[i].confianca)}

\* C28 as stated: between calls of enviar_para_glossa, envios_sucesso +
\* envios_falha <= total_envios, and total_envios - envios_sucesso -
\* envios_falha is the number of calls the filter rejected; a call adds one to
\* total_envios and to at most one of envios_sucesso and envios_falha.
C28_ContadoresCoerentes ==
    [][\A s \in Sessoes :
          LET x == sessao[s]
              y == sessao'[s]
          IN /\ (~IsNone(y.orq) /\ y.pc # "despachando") =>
                    /\ Val(y.orq).envios_sucesso + Val(y.orq).envios_falha
                           <= Val(y.orq).total_envios
                    /\ Val(y.orq).total_envios - Val(y.orq).envios_sucesso
                           - Val(y.orq).envios_falha
                           = Cardinality(Filtrados(y.despachos))
                    /\ Val(y.orq).total_envios = Len(y.despachos)
             /\ (~IsNone(x.orq) /\ x.pc = "despachando") =>
                    (Val(y.orq).envios_sucesso - Val(x.orq).envios_sucesso)
                    + (Val(y.orq).envios_falha - Val(x.orq).envios_falha) <= 1]_vars

\* C29: a session sends one error message at most, and nothing after it: the
\* error message is the last message of the session, and from the attempt to
\* send it on, delivered or not, the messages sent no longer change.
C29_ErroUnicoEUltimo ==
    [][\A s \in Sessoes :
          LET x == sessao[s]
              y == sessao'[s]
          IN /\ Len(DoTipo(y.enviadas, "error")) <= 1
             /\ \A i \in DOMAIN y.enviadas :
                    y.enviadas[i].type = "error" => i = Len(y.enviadas)
             /\ DoTipo(y.enviadas, "error") # <<>> => y.erro_tentado
             /\ y.erro_tentado => Fase(y) >= 3 /\ y.pc # "tratando"
             /\ x.erro_tentado =>
                    /\ y.erro_tentado
                    /\ y.enviadas = x.enviadas]_vars

\* a final message, then the failure of the recognizer on the next frame:
\* the error message is the last of the torn-down session
C29_Witness ==
    \E s \in Sessoes :
        /\ sessao[s].pc = "terminada" /\ sessao[s].erro_tentado
        /\ Len(sessao[s].enviadas) = 3
        /\ sessao[s].enviadas[2].type = "final"
        /\ sessao[s].enviadas[3] = MensagemErro
        /\ sessao[s].encerramento.finalizou

FlutMenorIgual(a, b) == ~FlutMenor(b, a)

\* every confidence of the word list q lies in [0, 1]
ConfiancasNoIntervalo(q) ==
    \A i \in DOMAIN q : /\ FlutMenorIgual(FlutZero, q[i].conf)
                         /\ FlutMenorIgual(q[i].conf, FlutDeInt(1))

\* C30 as stated: when every confidence of the word list lies in [0, 1], the
\* confidence of the result lies between the smallest and the largest of
\* them.
C30_EntreMenorEMaior ==
    LET q == c_resultado.result
    IN (~IsNone(c_saida) /\ q # <<>> /\ ConfiancasNoIntervalo(q)) =>
           /\ ~IsNone(Val(c_saida))
           /\ \E i \in DOMAIN q : FlutMenorIgual(q[i].conf, Val(Val(c_saida)))
           /\ \E i \in DOMAIN q : FlutMenorIgual(Val(Val(c_saida)), q[i].conf)

\* C30 amended: when every confidence of the word list lies in [0, 1], the
\* confidence of the result, which rounding can put just below the smallest
\* or just above the largest of them, lies in [0, 1] and passes the
\* validation of the confidence field of the final message.
C30_ConfiancaNoIntervalo ==
    LET q == c_resultado.result
    IN (~IsNone(c_saida) /\ q # <<>> /\ ConfiancasNoIntervalo(q)) =>
           /\ ~IsNone(Val(c_saida))
           /\ FlutMenorIgual(FlutZero, Val(Val(c_saida)))
           /\ FlutMenorIgual(Val(Val(c_saida)), FlutDeInt(1))
           /\ ConfiancaValida(Val(c_saida))

\* two words of confidence 0.3 whose result rounding has put below 0.3, and
\* inside [0, 1]
C30_Witness ==
    LET q == c_resultado.result
    IN /\ ~IsNone(c_saida) /\ Len(q) = 2 /\ ~IsNone(Val(c_saida))
       /\ \A i \in DOMAIN q : q[i].conf = Flut(Frac(3, 10))
       /\ FlutMenor(Val(Val(c_saida)), Flut(Frac(3, 10)))
       /\ ConfiancaValida(Val(c_saida))

====
